---- MODULE Spec2Model ----
(***************************************************************************)
(* A model of the S_HDMV/PGS subtitle decoder of src/src/bdsup: the byte   *)
(* level segment framer and segment decoders (read_display_set, parse_pcs ..), *)
(* the cross-frame decoder state of PgsParser, the RLE bitmap renderer     *)
(* (render_into_image) and the window compositor (ImageWindow).            *)
(*                                                                         *)
(* Bytes are naturals 0..255, byte strings are sequences (1-based).        *)
(* Option<T> is a sequence of length at most one: None is << >>,           *)
(* Some(x) is <<x>>.  A HashMap is a function whose DOMAIN is its key set. *)
(***************************************************************************)
EXTENDS Integers, Sequences, FiniteSets, TLC

VARIABLES
    running_pcs,    \* PgsParser.running_pcs : Option<PresentationComposition>
    window_table,   \* PgsParser.window_table : window_id -> SingleWindowDefinition
    palette_table,  \* PgsParser.palette_table : palette_id -> color_id -> <<luma, alpha>>
    object_table,   \* PgsParser.object_table : object_id -> ObjectDefinition
    frame,          \* the payload handed to the latest process_mkv_frame call
    result,         \* what the latest process_mkv_frame call returned
    pre_epoch,      \* history: ids that were cached before an EpochStart and not defined since
    nframes,        \* number of frames delivered so far
    input,          \* the arguments drawn for the component a single-component specification drives
    image_window    \* the ImageWindow a single-component specification draws into

vars == <<running_pcs, window_table, palette_table, object_table, frame, result, pre_epoch, nframes,
          input, image_window>>

\* ------------------------------------------------------------------ bounds

\* Frames delivered to one decoder instance.  It also bounds the running
\* composition's object list, which grows by one AcquisitionPoint merge per frame.
MaxFrames == 3

\* ------------------------------------------------------------------ basics

None == << >>

Some(x) == <<x>>

EmptyMap == << >>

\* Result values of the decoders: Ok(value), Err(FormatError), or a panic
\* (process abort) carrying the panic message of the source.
Ok(v) == [kind |-> "Ok", val |-> v]

FormatError == [kind |-> "FormatError"]

RleFormatError == [kind |-> "RleFormatError"]

Panic(m) == [kind |-> "Panic", msg |-> m]

MissingPalette(pid, cn) == [kind |-> "MissingPalette", palette_id |-> pid, composition_number |-> cn]

MissingColor(c, pid, cn) ==
    [kind |-> "MissingColor", color_id |-> c, palette_id |-> pid, composition_number |-> cn]

MissingObject(oid, cn) == [kind |-> "MissingObject", object_id |-> oid, composition_number |-> cn]

MissingWindow(wid, cn) == [kind |-> "MissingWindow", window_id |-> wid, composition_number |-> cn]

\* Segment type codes (0x14, 0x15, 0x16, 0x17, 0x80).
PGS_SEGMENT_TYPE_PDS == 20

PGS_SEGMENT_TYPE_ODS == 21

PGS_SEGMENT_TYPE_PCS == 22

PGS_SEGMENT_TYPE_WDS == 23

PGS_SEGMENT_TYPE_END == 128

\* LastInSequence bit flags.
FIRST_IN_SEQUENCE == 64

LAST_IN_SEQUENCE == 128

\* ------------------------------------------------------------------ byte cursor

\* PacketReader::get_remaining_bytes for a cursor at 1-based position pos.
get_remaining_bytes(data, pos) == Len(data) - pos + 1

\* PacketReader::read_u8 / read_u16 (big endian) / take_bytes at position pos:
\* None when fewer bytes remain than are asked for.
read_u8(data, pos) == IF get_remaining_bytes(data, pos) < 1 THEN None ELSE Some(data[pos])

read_u16(data, pos) ==
    IF get_remaining_bytes(data, pos) < 2 THEN None ELSE Some(data[pos] * 256 + data[pos + 1])

take_bytes(data, pos, n) ==
    IF get_remaining_bytes(data, pos) < n THEN None ELSE Some(SubSeq(data, pos, pos + n - 1))

\* Unchecked big-endian reads, used once the length has been checked.
U16At(data, pos) == data[pos] * 256 + data[pos + 1]

U24At(data, pos) == data[pos] * 65536 + data[pos + 1] * 256 + data[pos + 2]

\* ------------------------------------------------------------------ segment decoders

\* The entry loop of parse_pds: one entry per 5 bytes until the input is
\* exhausted; an entry cut short is a FormatError.
RECURSIVE palette_entries(_, _, _)
palette_entries(data, pos, entries) ==
    IF read_u8(data, pos) = None THEN Ok(entries)
    ELSE IF get_remaining_bytes(data, pos) < 5 THEN FormatError
    ELSE palette_entries(data, pos + 5,
            Append(entries, [palette_entry_id |-> data[pos],
                             luminance |-> data[pos + 1],
                             color_diff_red |-> data[pos + 2],
                             color_diff_blue |-> data[pos + 3],
                             transparency |-> data[pos + 4]]))

parse_pds(data) ==
    IF read_u8(data, 1) = None \/ read_u8(data, 2) = None THEN FormatError
    ELSE LET e == palette_entries(data, 3, << >>) IN
         IF e.kind # "Ok" THEN e
         ELSE Ok([palette_id |-> data[1], palette_version |-> data[2], entries |-> e.val])

\* LastInSequence::from_bits: None when a bit outside the two flags is set.
from_bits(flag) ==
    IF flag \in {0, FIRST_IN_SEQUENCE, LAST_IN_SEQUENCE, FIRST_IN_SEQUENCE + LAST_IN_SEQUENCE}
    THEN Some(flag) ELSE None

\* LastInSequence::contains for the single flags and for both together.
contains(bits, flags) ==
    /\ (flags \in {FIRST_IN_SEQUENCE, FIRST_IN_SEQUENCE + LAST_IN_SEQUENCE}
            => (bits % 128) >= 64)
    /\ (flags \in {LAST_IN_SEQUENCE, FIRST_IN_SEQUENCE + LAST_IN_SEQUENCE}
            => bits >= 128)

\* u32::saturating_sub
saturating_sub(a, b) == IF a < b THEN 0 ELSE a - b

parse_ods(data) ==
    IF get_remaining_bytes(data, 1) < 11 THEN FormatError
    ELSE LET object_data_length == saturating_sub(U24At(data, 5), 4)
             rle == take_bytes(data, 12, object_data_length)
         IN  IF rle = None THEN FormatError
             ELSE IF from_bits(data[4]) = None THEN FormatError
             ELSE Ok([object_id |-> U16At(data, 1),
                      object_version |-> data[3],
                      last_in_sequence |-> data[4],
                      width |-> U16At(data, 8),
                      height |-> U16At(data, 10),
                      rle_data |-> rle[1]])

\* The composition object loop of parse_pcs: 8 bytes per object, plus 8 when
\* the cropped flag (top bit of the 4th byte) is set.
RECURSIVE composition_objects_loop(_, _, _, _)
composition_objects_loop(data, pos, n, objs) ==
    IF n = 0 THEN Ok(objs)
    ELSE IF get_remaining_bytes(data, pos) < 8 THEN FormatError
    ELSE LET cropped == data[pos + 3] >= 128 IN
         IF cropped /\ get_remaining_bytes(data, pos) < 16 THEN FormatError
         ELSE composition_objects_loop(data, pos + (IF cropped THEN 16 ELSE 8), n - 1,
                Append(objs,
                  [object_id |-> U16At(data, pos),
                   window_id |-> data[pos + 2],
                   object_cropped_flag |-> cropped,
                   object_horizontal_pos |-> U16At(data, pos + 4),
                   object_vertical_pos |-> U16At(data, pos + 6),
                   object_cropping_horizontal_pos |-> IF cropped THEN U16At(data, pos + 8) ELSE 0,
                   object_cropping_vertical_pos |-> IF cropped THEN U16At(data, pos + 10) ELSE 0,
                   object_cropping_width |-> IF cropped THEN U16At(data, pos + 12) ELSE 0,
                   object_cropping_height |-> IF cropped THEN U16At(data, pos + 14) ELSE 0]))

CompositionStateOf(byte) ==
    IF byte = 0 THEN "Normal" ELSE IF byte = 64 THEN "AcquisitionPoint" ELSE "EpochStart"

parse_pcs(data) ==
    IF get_remaining_bytes(data, 1) < 8 THEN FormatError
    ELSE IF data[8] \notin {0, 64, 128} THEN Panic("Invalid composition state")
    ELSE IF get_remaining_bytes(data, 1) < 11 THEN FormatError
    ELSE LET objs == composition_objects_loop(data, 12, data[11], << >>) IN
         IF objs.kind # "Ok" THEN objs
         ELSE Ok([width |-> U16At(data, 1),
                  height |-> U16At(data, 3),
                  frame_rate |-> data[5],
                  composition_number |-> U16At(data, 6),
                  composition_state |-> CompositionStateOf(data[8]),
                  palette_update_flag |-> data[9] > 0,
                  palette_id |-> data[10],
                  composition_objects |-> objs.val])

\* The window loop of parse_wds: 9 bytes per window.
RECURSIVE windows_loop(_, _, _, _)
windows_loop(data, pos, n, windows) ==
    IF n = 0 THEN Ok(windows)
    ELSE IF get_remaining_bytes(data, pos) < 9 THEN FormatError
    ELSE windows_loop(data, pos + 9, n - 1,
            Append(windows, [window_id |-> data[pos],
                             horizontal_pos |-> U16At(data, pos + 1),
                             vertical_pos |-> U16At(data, pos + 3),
                             width |-> U16At(data, pos + 5),
                             height |-> U16At(data, pos + 7)]))

parse_wds(data) ==
    IF read_u8(data, 1) = None THEN FormatError
    ELSE windows_loop(data, 2, data[1], << >>)

\* ------------------------------------------------------------------ display-set loop

\* Mutant of reassemble: a first-in-sequence segment discards the pending object.
reassemble_discards_pending(ods, current_ods, this_ods) ==
    IF contains(this_ods.last_in_sequence, FIRST_IN_SEQUENCE + LAST_IN_SEQUENCE)
    THEN <<Append(ods, this_ods), None>>
    ELSE IF contains(this_ods.last_in_sequence, FIRST_IN_SEQUENCE)
    THEN <<ods, Some(this_ods)>>
    ELSE IF contains(this_ods.last_in_sequence, LAST_IN_SEQUENCE)
    THEN IF current_ods # None
         THEN <<Append(ods, [current_ods[1] EXCEPT !.rle_data = @ \o this_ods.rle_data]), None>>
         ELSE <<ods, None>>
    ELSE IF current_ods # None
         THEN <<ods, Some([current_ods[1] EXCEPT !.rle_data = @ \o this_ods.rle_data])>>
         ELSE <<ods, None>>

\* The Object arm of read_display_set (the fragment reassembler): the new
\* <<ods, current_ods>> after this_ods has been seen.
reassemble(ods, current_ods, this_ods) ==
    IF contains(this_ods.last_in_sequence, FIRST_IN_SEQUENCE + LAST_IN_SEQUENCE)
    THEN <<(ods \o current_ods) \o <<this_ods>>, None>>
    ELSE IF contains(this_ods.last_in_sequence, FIRST_IN_SEQUENCE)
    THEN <<ods \o current_ods, Some(this_ods)>>
    ELSE IF contains(this_ods.last_in_sequence, LAST_IN_SEQUENCE)
    THEN IF current_ods # None
         THEN <<Append(ods, [current_ods[1] EXCEPT !.rle_data = @ \o this_ods.rle_data]), None>>
         ELSE <<ods, None>>
    ELSE IF current_ods # None
         THEN <<ods, Some([current_ods[1] EXCEPT !.rle_data = @ \o this_ods.rle_data])>>
         ELSE <<ods, None>>

\* read_display_set from cursor position pos, with the loop's locals.
RECURSIVE display_set_loop(_, _, _, _, _, _, _)
display_set_loop(data, pos, pcs, wds, pds, ods, current_ods) ==
    IF read_u8(data, pos) = None \/ read_u16(data, pos + 1) = None THEN FormatError
    ELSE LET segment_type == data[pos]
             segment_size == U16At(data, pos + 1)
             body == SubSeq(data, pos + 3, pos + 2 + segment_size)
             next == pos + 3 + segment_size
         IN
         IF get_remaining_bytes(data, pos + 3) < segment_size
         THEN Panic("Segment length is greater than data length")
         ELSE IF segment_type = PGS_SEGMENT_TYPE_PDS
         THEN LET r == parse_pds(body) IN
              IF r.kind # "Ok" THEN r
              ELSE display_set_loop(data, next, pcs, wds, Append(pds, r.val), ods, current_ods)
         ELSE IF segment_type = PGS_SEGMENT_TYPE_ODS
         THEN LET r == parse_ods(body) IN
              IF r.kind # "Ok" THEN r
              ELSE LET n == reassemble(ods, current_ods, r.val) IN
                   display_set_loop(data, next, pcs, wds, pds, n[1], n[2])
         ELSE IF segment_type = PGS_SEGMENT_TYPE_PCS
         THEN LET r == parse_pcs(body) IN
              IF r.kind # "Ok" THEN r
              ELSE display_set_loop(data, next, Some(r.val), wds, pds, ods, current_ods)
         ELSE IF segment_type = PGS_SEGMENT_TYPE_WDS
         THEN LET r == parse_wds(body) IN
              IF r.kind # "Ok" THEN r
              ELSE display_set_loop(data, next, pcs, wds \o r.val, pds, ods, current_ods)
         ELSE IF segment_type = PGS_SEGMENT_TYPE_END
         THEN IF pcs = None THEN FormatError
              ELSE Ok([pcs |-> pcs[1], wds |-> wds, pds |-> pds, ods |-> ods])
         ELSE Panic("Invalid segment type")

\* Mutant of read_segment: after a Window segment the cursor is left at the
\* segment's header.
read_segment_rereads_windows(data, pos, pcs, wds, pds, ods, current_ods) ==
    LET Stop(r) == [res |-> r, pos |-> pos, pcs |-> pcs, wds |-> wds, pds |-> pds,
                    ods |-> ods, current_ods |-> current_ods]
        Go(p, c, w, d, o, cur) == [res |-> [kind |-> "Continue"], pos |-> p, pcs |-> c,
                                   wds |-> w, pds |-> d, ods |-> o, current_ods |-> cur]
    IN
    IF read_u8(data, pos) = None \/ read_u16(data, pos + 1) = None THEN Stop(FormatError)
    ELSE LET segment_type == data[pos]
             segment_size == U16At(data, pos + 1)
             body == SubSeq(data, pos + 3, pos + 2 + segment_size)
             next == pos + 3 + segment_size
         IN
         IF get_remaining_bytes(data, pos + 3) < segment_size
         THEN Stop(Panic("Segment length is greater than data length"))
         ELSE IF segment_type = PGS_SEGMENT_TYPE_PDS
         THEN LET r == parse_pds(body) IN
              IF r.kind # "Ok" THEN Stop(r)
              ELSE Go(next, pcs, wds, Append(pds, r.val), ods, current_ods)
         ELSE IF segment_type = PGS_SEGMENT_TYPE_ODS
         THEN LET r == parse_ods(body) IN
              IF r.kind # "Ok" THEN Stop(r)
              ELSE LET n == reassemble(ods, current_ods, r.val) IN
                   Go(next, pcs, wds, pds, n[1], n[2])
         ELSE IF segment_type = PGS_SEGMENT_TYPE_PCS
         THEN LET r == parse_pcs(body) IN
              IF r.kind # "Ok" THEN Stop(r)
              ELSE Go(next, Some(r.val), wds, pds, ods, current_ods)
         ELSE IF segment_type = PGS_SEGMENT_TYPE_WDS
         THEN LET r == parse_wds(body) IN
              IF r.kind # "Ok" THEN Stop(r)
              ELSE Go(pos, pcs, wds \o r.val, pds, ods, current_ods)
         ELSE IF segment_type = PGS_SEGMENT_TYPE_END
         THEN IF pcs = None THEN Stop(FormatError)
              ELSE Stop(Ok([pcs |-> pcs[1], wds |-> wds, pds |-> pds, ods |-> ods]))
         ELSE Stop(Panic("Invalid segment type"))

\* One iteration of the `loop` of read_display_set with the cursor at pos and
\* the loop's locals: [res |-> Continue, the Display Set at End or the
\* error, pos and the locals as left behind].
read_segment(data, pos, pcs, wds, pds, ods, current_ods) ==
    LET Stop(r) == [res |-> r, pos |-> pos, pcs |-> pcs, wds |-> wds, pds |-> pds,
                    ods |-> ods, current_ods |-> current_ods]
        Go(p, c, w, d, o, cur) == [res |-> [kind |-> "Continue"], pos |-> p, pcs |-> c,
                                   wds |-> w, pds |-> d, ods |-> o, current_ods |-> cur]
    IN
    IF read_u8(data, pos) = None \/ read_u16(data, pos + 1) = None THEN Stop(FormatError)
    ELSE LET segment_type == data[pos]
             segment_size == U16At(data, pos + 1)
             body == SubSeq(data, pos + 3, pos + 2 + segment_size)
             next == pos + 3 + segment_size
         IN
         IF get_remaining_bytes(data, pos + 3) < segment_size
         THEN Stop(Panic("Segment length is greater than data length"))
         ELSE IF segment_type = PGS_SEGMENT_TYPE_PDS
         THEN LET r == parse_pds(body) IN
              IF r.kind # "Ok" THEN Stop(r)
              ELSE Go(next, pcs, wds, Append(pds, r.val), ods, current_ods)
         ELSE IF segment_type = PGS_SEGMENT_TYPE_ODS
         THEN LET r == parse_ods(body) IN
              IF r.kind # "Ok" THEN Stop(r)
              ELSE LET n == reassemble(ods, current_ods, r.val) IN
                   Go(next, pcs, wds, pds, n[1], n[2])
         ELSE IF segment_type = PGS_SEGMENT_TYPE_PCS
         THEN LET r == parse_pcs(body) IN
              IF r.kind # "Ok" THEN Stop(r)
              ELSE Go(next, Some(r.val), wds, pds, ods, current_ods)
         ELSE IF segment_type = PGS_SEGMENT_TYPE_WDS
         THEN LET r == parse_wds(body) IN
              IF r.kind # "Ok" THEN Stop(r)
              ELSE Go(next, pcs, wds \o r.val, pds, ods, current_ods)
         ELSE IF segment_type = PGS_SEGMENT_TYPE_END
         THEN IF pcs = None THEN Stop(FormatError)
              ELSE Stop(Ok([pcs |-> pcs[1], wds |-> wds, pds |-> pds, ods |-> ods]))
         ELSE Stop(Panic("Invalid segment type"))

\* Mutant of read_display_set: the end of the payload counts as an End segment.
read_display_set_end_optional(data) ==
    display_set_loop(data \o <<PGS_SEGMENT_TYPE_END, 0, 0>>, 1, None, << >>, << >>, << >>, None)

read_display_set(data) == display_set_loop(data, 1, None, << >>, << >>, << >>, None)

\* ------------------------------------------------------------------ window compositor

\* image::GrayAlphaImage::new: a width x height canvas of <<0, 0>> pixels,
\* indexed by <<x, y>>.
NewImage(w, h) ==
    [width |-> w, height |-> h,
     px |-> [c \in (0 .. w - 1) \X (0 .. h - 1) |-> <<0, 0>>]]

with_window(image, x, y, width, height) ==
    [image |-> image, x_cursor |-> 0, y_cursor |-> 0, x |-> x, y |-> y,
     width |-> width, height |-> height, crop_origin |-> None]

with_window_cropped(image, x, y, width, height, crop_x, crop_y) ==
    [image |-> image, x_cursor |-> 0, y_cursor |-> 0, x |-> x, y |-> y,
     width |-> width, height |-> height, crop_origin |-> Some(<<crop_x, crop_y>>)]

\* Mutant of put_pixel: a coordinate beyond the canvas is moved to the canvas edge.
put_pixel_clamped(self, x0, y0, pixel) ==
    LET cropped == self.crop_origin # None
        crop_x == IF cropped THEN self.crop_origin[1][1] ELSE 0
        crop_y == IF cropped THEN self.crop_origin[1][2] ELSE 0
    IN
    IF cropped /\ (x0 < crop_x \/ y0 < crop_y) THEN self
    ELSE LET x1 == x0 - crop_x
             y1 == y0 - crop_y
         IN
         IF x1 >= self.width \/ y1 >= self.height THEN self
         ELSE LET x2 == IF x1 + self.x >= self.image.width
                        THEN self.image.width - 1 ELSE x1 + self.x
                  y2 == IF y1 + self.y >= self.image.height
                        THEN self.image.height - 1 ELSE y1 + self.y
              IN
              IF pixel[2] # 0
              THEN [self EXCEPT !.image.px[<<x2, y2>>] = pixel]
              ELSE self

\* Mutant of put_pixel: a pixel is written whatever its alpha.
put_pixel_any_alpha(self, x0, y0, pixel) ==
    LET cropped == self.crop_origin # None
        crop_x == IF cropped THEN self.crop_origin[1][1] ELSE 0
        crop_y == IF cropped THEN self.crop_origin[1][2] ELSE 0
    IN
    IF cropped /\ (x0 < crop_x \/ y0 < crop_y) THEN self
    ELSE LET x1 == x0 - crop_x
             y1 == y0 - crop_y
         IN
         IF x1 >= self.width \/ y1 >= self.height THEN self
         ELSE LET x2 == x1 + self.x
                  y2 == y1 + self.y
              IN
              IF x2 >= self.image.width \/ y2 >= self.image.height THEN self
              ELSE [self EXCEPT !.image.px[<<x2, y2>>] = pixel]

\* Mutant of put_pixel: the crop origin is tested but not subtracted.
put_pixel_keeps_crop_offset(self, x0, y0, pixel) ==
    LET cropped == self.crop_origin # None
        crop_x == IF cropped THEN self.crop_origin[1][1] ELSE 0
        crop_y == IF cropped THEN self.crop_origin[1][2] ELSE 0
    IN
    IF cropped /\ (x0 < crop_x \/ y0 < crop_y) THEN self
    ELSE IF x0 >= self.width \/ y0 >= self.height THEN self
         ELSE LET x2 == x0 + self.x
                  y2 == y0 + self.y
              IN
              IF x2 >= self.image.width \/ y2 >= self.image.height THEN self
              ELSE IF pixel[2] # 0
                   THEN [self EXCEPT !.image.px[<<x2, y2>>] = pixel]
                   ELSE self

\* ImageWindow::put_pixel: the window after a write of pixel at window-local (x0, y0).
put_pixel(self, x0, y0, pixel) ==
    LET cropped == self.crop_origin # None
        crop_x == IF cropped THEN self.crop_origin[1][1] ELSE 0
        crop_y == IF cropped THEN self.crop_origin[1][2] ELSE 0
    IN
    IF cropped /\ (x0 < crop_x \/ y0 < crop_y) THEN self
    ELSE LET x1 == x0 - crop_x
             y1 == y0 - crop_y
         IN
         IF x1 >= self.width \/ y1 >= self.height THEN self
         ELSE LET x2 == x1 + self.x
                  y2 == y1 + self.y
              IN
              IF x2 >= self.image.width \/ y2 >= self.image.height THEN self
              ELSE IF pixel[2] # 0
                   THEN [self EXCEPT !.image.px[<<x2, y2>>] = pixel]
                   ELSE self

push_pixel(self, pixel) ==
    [put_pixel(self, self.x_cursor, self.y_cursor, pixel) EXCEPT !.x_cursor = @ + 1]

end_line(self) == [self EXCEPT !.x_cursor = 0, !.y_cursor = @ + 1]

\* `for _ in 0..l { image.push_pixel(pixel) }`.  The l calls write the same
\* pixel at the cursor columns x_cursor .. x_cursor + l - 1 of one row and
\* read nothing back, so their joint effect is written without iteration: a
\* canvas coordinate holds pixel if the put_pixel of one of the calls writes
\* it, and the cursor has advanced by l.
push_pixels(self, pixel, l) ==
    LET Written(k) ==
            LET px == put_pixel(self, self.x_cursor + k, self.y_cursor, pixel).image.px
            IN { c \in DOMAIN px : px[c] # self.image.px[c] }
        written == UNION { Written(k) : k \in 0 .. l - 1 }
    IN [self EXCEPT !.image.px = [c \in DOMAIN @ |-> IF c \in written THEN pixel ELSE @[c]],
                    !.x_cursor = @ + l]

\* ------------------------------------------------------------------ RLE renderer

\* Mutant of render_loop: a 14-bit run length keeps only its low byte.
RECURSIVE render_loop_low_byte_length(_, _, _, _, _, _)
render_loop_low_byte_length(image, palette_id, composition_number, palette, data, pos) ==
    LET Fail(e) == [res |-> e, image |-> image]
        Missing(c) == Fail(MissingColor(c, palette_id, composition_number))
        Go(img, p) == render_loop_low_byte_length(img, palette_id, composition_number, palette, data, p)
    IN
    IF read_u8(data, pos) = None THEN [res |-> Ok(<< >>), image |-> image]
    ELSE IF data[pos] = 0
    THEN IF read_u8(data, pos + 1) = None THEN Fail(RleFormatError)
         ELSE LET follower == data[pos + 1]
                  img1 == IF follower = 0 THEN end_line(image) ELSE image
                  follower_code == follower \div 64
                  follower_value == follower % 64
              IN
              IF follower_code = 0
              THEN Go(push_pixels(img1, <<0, 0>>, follower_value), pos + 2)
              ELSE IF follower_code = 1
              THEN IF read_u8(data, pos + 2) = None THEN Fail(RleFormatError)
                   ELSE Go(push_pixels(img1, <<0, 0>>, data[pos + 2]), pos + 3)
              ELSE IF follower_code = 2
              THEN IF read_u8(data, pos + 2) = None THEN Fail(RleFormatError)
                   ELSE IF data[pos + 2] \notin DOMAIN palette THEN Missing(data[pos + 2])
                   ELSE Go(push_pixels(img1, palette[data[pos + 2]], follower_value), pos + 3)
              ELSE IF read_u8(data, pos + 2) = None \/ read_u8(data, pos + 3) = None
                   THEN Fail(RleFormatError)
                   ELSE IF data[pos + 3] \notin DOMAIN palette THEN Missing(data[pos + 3])
                   ELSE Go(push_pixels(img1, palette[data[pos + 3]], data[pos + 2]), pos + 4)
    ELSE IF data[pos] \notin DOMAIN palette THEN Missing(data[pos])
         ELSE Go(push_pixel(image, palette[data[pos]]), pos + 1)

\* Mutant of render_directive: the end-of-line test looks at the follower's low 6 bits.
render_directive_value_zero_ends_line(image, palette_id, composition_number, palette, data, pos) ==
    LET Fail(e) == [res |-> e, image |-> image, pos |-> pos]
        Missing(c) == Fail(MissingColor(c, palette_id, composition_number))
        Go(img, p) == [res |-> [kind |-> "Continue"], image |-> img, pos |-> p]
    IN
    IF read_u8(data, pos) = None THEN [res |-> Ok(<< >>), image |-> image, pos |-> pos]
    ELSE IF data[pos] = 0
    THEN IF read_u8(data, pos + 1) = None THEN Fail(RleFormatError)
         ELSE LET follower == data[pos + 1]
                  img1 == IF follower % 64 = 0 THEN end_line(image) ELSE image
                  follower_code == follower \div 64
                  follower_value == follower % 64
              IN
              IF follower_code = 0
              THEN Go(push_pixels(img1, <<0, 0>>, follower_value), pos + 2)
              ELSE IF follower_code = 1
              THEN IF read_u8(data, pos + 2) = None THEN Fail(RleFormatError)
                   ELSE Go(push_pixels(img1, <<0, 0>>, follower_value * 256 + data[pos + 2]),
                           pos + 3)
              ELSE IF follower_code = 2
              THEN IF read_u8(data, pos + 2) = None THEN Fail(RleFormatError)
                   ELSE IF data[pos + 2] \notin DOMAIN palette THEN Missing(data[pos + 2])
                   ELSE Go(push_pixels(img1, palette[data[pos + 2]], follower_value), pos + 3)
              ELSE IF read_u8(data, pos + 2) = None \/ read_u8(data, pos + 3) = None
                   THEN Fail(RleFormatError)
                   ELSE IF data[pos + 3] \notin DOMAIN palette THEN Missing(data[pos + 3])
                   ELSE Go(push_pixels(img1, palette[data[pos + 3]],
                                       follower_value * 256 + data[pos + 2]), pos + 4)
    ELSE IF data[pos] \notin DOMAIN palette THEN Missing(data[pos])
         ELSE Go(push_pixel(image, palette[data[pos]]), pos + 1)

\* One iteration of the `while let Some(leader) = data.read_u8()` loop of
\* render_into_image, with the cursor at pos: [res |-> Continue, Ok(..) at
\* the loop's exit or the error, image |-> the window as left behind,
\* pos |-> the cursor as left behind (where the directive began, on error)].
render_directive(image, palette_id, composition_number, palette, data, pos) ==
    LET Fail(e) == [res |-> e, image |-> image, pos |-> pos]
        Missing(c) == Fail(MissingColor(c, palette_id, composition_number))
        Go(img, p) == [res |-> [kind |-> "Continue"], image |-> img, pos |-> p]
    IN
    IF read_u8(data, pos) = None THEN [res |-> Ok(<< >>), image |-> image, pos |-> pos]
    ELSE IF data[pos] = 0
    THEN IF read_u8(data, pos + 1) = None THEN Fail(RleFormatError)
         ELSE LET follower == data[pos + 1]
                  img1 == IF follower = 0 THEN end_line(image) ELSE image
                  follower_code == follower \div 64
                  follower_value == follower % 64
              IN
              IF follower_code = 0
              THEN Go(push_pixels(img1, <<0, 0>>, follower_value), pos + 2)
              ELSE IF follower_code = 1
              THEN IF read_u8(data, pos + 2) = None THEN Fail(RleFormatError)
                   ELSE Go(push_pixels(img1, <<0, 0>>, follower_value * 256 + data[pos + 2]),
                           pos + 3)
              ELSE IF follower_code = 2
              THEN IF read_u8(data, pos + 2) = None THEN Fail(RleFormatError)
                   ELSE IF data[pos + 2] \notin DOMAIN palette THEN Missing(data[pos + 2])
                   ELSE Go(push_pixels(img1, palette[data[pos + 2]], follower_value), pos + 3)
              ELSE IF read_u8(data, pos + 2) = None \/ read_u8(data, pos + 3) = None
                   THEN Fail(RleFormatError)
                   ELSE IF data[pos + 3] \notin DOMAIN palette THEN Missing(data[pos + 3])
                   ELSE Go(push_pixels(img1, palette[data[pos + 3]],
                                       follower_value * 256 + data[pos + 2]), pos + 4)
    ELSE IF data[pos] \notin DOMAIN palette THEN Missing(data[pos])
         ELSE Go(push_pixel(image, palette[data[pos]]), pos + 1)

\* render_into_image from byte position pos: [res |-> Ok(..) or the error,
\* image |-> the window as left behind].
RECURSIVE render_loop(_, _, _, _, _, _)
render_loop(image, palette_id, composition_number, palette, data, pos) ==
    LET Fail(e) == [res |-> e, image |-> image]
        Missing(c) == Fail(MissingColor(c, palette_id, composition_number))
        Go(img, p) == render_loop(img, palette_id, composition_number, palette, data, p)
    IN
    IF read_u8(data, pos) = None THEN [res |-> Ok(<< >>), image |-> image]
    ELSE IF data[pos] = 0
    THEN IF read_u8(data, pos + 1) = None THEN Fail(RleFormatError)
         ELSE LET follower == data[pos + 1]
                  img1 == IF follower = 0 THEN end_line(image) ELSE image
                  follower_code == follower \div 64
                  follower_value == follower % 64
              IN
              IF follower_code = 0
              THEN Go(push_pixels(img1, <<0, 0>>, follower_value), pos + 2)
              ELSE IF follower_code = 1
              THEN IF read_u8(data, pos + 2) = None THEN Fail(RleFormatError)
                   ELSE Go(push_pixels(img1, <<0, 0>>, follower_value * 256 + data[pos + 2]),
                           pos + 3)
              ELSE IF follower_code = 2
              THEN IF read_u8(data, pos + 2) = None THEN Fail(RleFormatError)
                   ELSE IF data[pos + 2] \notin DOMAIN palette THEN Missing(data[pos + 2])
                   ELSE Go(push_pixels(img1, palette[data[pos + 2]], follower_value), pos + 3)
              ELSE IF read_u8(data, pos + 2) = None \/ read_u8(data, pos + 3) = None
                   THEN Fail(RleFormatError)
                   ELSE IF data[pos + 3] \notin DOMAIN palette THEN Missing(data[pos + 3])
                   ELSE Go(push_pixels(img1, palette[data[pos + 3]],
                                       follower_value * 256 + data[pos + 2]), pos + 4)
    ELSE IF data[pos] \notin DOMAIN palette THEN Missing(data[pos])
         ELSE Go(push_pixel(image, palette[data[pos]]), pos + 1)

render_into_image(image, palette_id, composition_number, palette, data) ==
    render_loop(image, palette_id, composition_number, palette, data, 1)

\* ------------------------------------------------------------------ decoder state

\* HashMap::insert
Insert(table, k, v) == (k :> v) @@ table

\* The decoder state of a PgsParser as one record.
ParserState(rp, wt, pt, ot) ==
    [running_pcs |-> rp, window_table |-> wt, palette_table |-> pt, object_table |-> ot]

\* PgsParser::new()
NewParser == ParserState(None, EmptyMap, EmptyMap, EmptyMap)

\* Mutant of clear_cache: the object table is forgotten when the cache is cleared.
clear_cache_keeps_objects(st, ds) ==
    IF ds.pcs.composition_state = "EpochStart"
    THEN [st EXCEPT !.window_table = EmptyMap, !.palette_table = EmptyMap]
    ELSE st

\* "Clear cache if requested": the three tables are emptied on EpochStart.
clear_cache(st, ds) ==
    IF ds.pcs.composition_state = "EpochStart"
    THEN [st EXCEPT !.window_table = EmptyMap, !.palette_table = EmptyMap,
                    !.object_table = EmptyMap]
    ELSE st

\* `for entry in palette.entries { stored_palette.insert(..) }`
RECURSIVE insert_entries(_, _, _)
insert_entries(stored_palette, entries, i) ==
    IF i > Len(entries) THEN stored_palette
    ELSE insert_entries(
            Insert(stored_palette, entries[i].palette_entry_id,
                   <<entries[i].luminance, entries[i].transparency>>),
            entries, i + 1)

\* Mutant of insert_palettes: a Palette segment replaces the stored palette.
RECURSIVE insert_palettes_replace(_, _, _)
insert_palettes_replace(table, pds, i) ==
    IF i > Len(pds) THEN table
    ELSE LET stored_palette == EmptyMap
         IN insert_palettes_replace(
                Insert(table, pds[i].palette_id, insert_entries(stored_palette, pds[i].entries, 1)),
                pds, i + 1)

\* `for palette in display_set.pds { .. }`
RECURSIVE insert_palettes(_, _, _)
insert_palettes(table, pds, i) ==
    IF i > Len(pds) THEN table
    ELSE LET stored_palette == IF pds[i].palette_id \in DOMAIN table
                               THEN table[pds[i].palette_id] ELSE EmptyMap
         IN insert_palettes(
                Insert(table, pds[i].palette_id, insert_entries(stored_palette, pds[i].entries, 1)),
                pds, i + 1)

\* `for window in display_set.wds { self.window_table.insert(window.window_id, window) }`
RECURSIVE insert_windows(_, _, _)
insert_windows(table, wds, i) ==
    IF i > Len(wds) THEN table
    ELSE insert_windows(Insert(table, wds[i].window_id, wds[i]), wds, i + 1)

\* `for object in display_set.ods { self.object_table.insert(object.object_id, object) }`
RECURSIVE insert_objects(_, _, _)
insert_objects(table, ods, i) ==
    IF i > Len(ods) THEN table
    ELSE insert_objects(Insert(table, ods[i].object_id, ods[i]), ods, i + 1)

\* "Update cache with new data"
update_cache(st, ds) ==
    [st EXCEPT !.palette_table = insert_palettes(@, ds.pds, 1),
               !.window_table = insert_windows(@, ds.wds, 1),
               !.object_table = insert_objects(@, ds.ods, 1)]

\* Mutant of update_running_pcs: an AcquisitionPoint merge takes the canvas
\* size and palette of the new composition.
update_running_pcs_takes_canvas(running, pcs) ==
    IF pcs.composition_state = "AcquisitionPoint"
    THEN IF running # None
         THEN Some([pcs EXCEPT
                        !.composition_state = running[1].composition_state,
                        !.composition_objects = running[1].composition_objects \o @])
         ELSE running
    ELSE Some(pcs)

\* Mutant of update_running_pcs: an AcquisitionPoint composition replaces the
\* running one like any other.
update_running_pcs_replace(running, pcs) == Some(pcs)

\* "Update running PCS"
update_running_pcs(running, pcs) ==
    IF pcs.composition_state = "AcquisitionPoint"
    THEN IF running # None
         THEN Some([running[1] EXCEPT
                        !.composition_number = pcs.composition_number,
                        !.composition_objects = @ \o pcs.composition_objects])
         ELSE running
    ELSE Some(pcs)

\* Mutant of object_window: the window is placed at the object offset alone.
object_window_ignores_window(image, object, window_def) ==
    IF object.object_cropped_flag
    THEN with_window_cropped(image,
            object.object_horizontal_pos,
            object.object_vertical_pos,
            object.object_cropping_width,
            object.object_cropping_height,
            object.object_cropping_horizontal_pos,
            object.object_cropping_vertical_pos)
    ELSE with_window(image,
            object.object_horizontal_pos,
            object.object_vertical_pos,
            window_def.width,
            window_def.height)

\* The ImageWindow process_mkv_frame builds for one composition object.
object_window(image, object, window_def) ==
    IF object.object_cropped_flag
    THEN with_window_cropped(image,
            window_def.horizontal_pos + object.object_horizontal_pos,
            window_def.vertical_pos + object.object_vertical_pos,
            object.object_cropping_width,
            object.object_cropping_height,
            object.object_cropping_horizontal_pos,
            object.object_cropping_vertical_pos)
    ELSE with_window(image,
            window_def.horizontal_pos + object.object_horizontal_pos,
            window_def.vertical_pos + object.object_vertical_pos,
            window_def.width,
            window_def.height)

\* Mutant of render_objects: an entry whose object or window is not cached is
\* skipped instead of reported.
RECURSIVE render_objects_skip_missing(_, _, _, _, _)
render_objects_skip_missing(st, pcs, palette, image, i) ==
    IF i > Len(pcs.composition_objects) THEN Ok(image)
    ELSE LET object == pcs.composition_objects[i] IN
         IF \/ object.object_id \notin DOMAIN st.object_table
            \/ object.window_id \notin DOMAIN st.window_table
         THEN render_objects_skip_missing(st, pcs, palette, image, i + 1)
         ELSE LET r == render_into_image(
                          object_window(image, object, st.window_table[object.window_id]),
                          pcs.palette_id, pcs.composition_number, palette,
                          st.object_table[object.object_id].rle_data)
              IN render_objects_skip_missing(st, pcs, palette, r.image.image, i + 1)

\* Mutant of render_objects: the composition objects are drawn last to first.
RECURSIVE render_objects_last_first(_, _, _, _, _)
render_objects_last_first(st, pcs, palette, image, i) ==
    IF i > Len(pcs.composition_objects) THEN Ok(image)
    ELSE LET object == pcs.composition_objects[Len(pcs.composition_objects) + 1 - i] IN
         IF object.object_id \notin DOMAIN st.object_table
         THEN MissingObject(object.object_id, pcs.composition_number)
         ELSE IF object.window_id \notin DOMAIN st.window_table
         THEN MissingWindow(object.window_id, pcs.composition_number)
         ELSE LET r == render_into_image(
                          object_window(image, object, st.window_table[object.window_id]),
                          pcs.palette_id, pcs.composition_number, palette,
                          st.object_table[object.object_id].rle_data)
              IN render_objects_last_first(st, pcs, palette, r.image.image, i + 1)

\* Mutant of render_objects: an entry's window is looked up before its object.
RECURSIVE render_objects_window_first(_, _, _, _, _)
render_objects_window_first(st, pcs, palette, image, i) ==
    IF i > Len(pcs.composition_objects) THEN Ok(image)
    ELSE LET object == pcs.composition_objects[i] IN
         IF object.window_id \notin DOMAIN st.window_table
         THEN MissingWindow(object.window_id, pcs.composition_number)
         ELSE IF object.object_id \notin DOMAIN st.object_table
         THEN MissingObject(object.object_id, pcs.composition_number)
         ELSE LET r == render_into_image(
                          object_window(image, object, st.window_table[object.window_id]),
                          pcs.palette_id, pcs.composition_number, palette,
                          st.object_table[object.object_id].rle_data)
              IN render_objects_window_first(st, pcs, palette, r.image.image, i + 1)

\* `for object in pcs.composition_objects.iter() { .. }` from entry i on: the
\* error returned, or Ok(image).  The Result of render_into_image is dropped
\* by the caller (no `?`), the pixels it wrote before failing stay.
RECURSIVE render_objects(_, _, _, _, _)
render_objects(st, pcs, palette, image, i) ==
    IF i > Len(pcs.composition_objects) THEN Ok(image)
    ELSE LET object == pcs.composition_objects[i] IN
         IF object.object_id \notin DOMAIN st.object_table
         THEN MissingObject(object.object_id, pcs.composition_number)
         ELSE IF object.window_id \notin DOMAIN st.window_table
         THEN MissingWindow(object.window_id, pcs.composition_number)
         ELSE LET r == render_into_image(
                          object_window(image, object, st.window_table[object.window_id]),
                          pcs.palette_id, pcs.composition_number, palette,
                          st.object_table[object.object_id].rle_data)
              IN render_objects(st, pcs, palette, r.image.image, i + 1)

\* Mutant of render_pcs: a running composition that shows no object gives no image.
render_pcs_none_without_objects(st) ==
    IF st.running_pcs = None \/ st.running_pcs[1].composition_objects = << >>
    THEN [kind |-> "None"]
    ELSE LET pcs == st.running_pcs[1] IN
         IF pcs.palette_id \notin DOMAIN st.palette_table
         THEN MissingPalette(pcs.palette_id, pcs.composition_number)
         ELSE LET r == render_objects(st, pcs, st.palette_table[pcs.palette_id],
                                      NewImage(pcs.width, pcs.height), 1)
              IN IF r.kind = "Ok" THEN [kind |-> "Image", image |-> r.val] ELSE r

\* "Render PCS": what process_mkv_frame returns once the state is updated.
render_pcs(st) ==
    IF st.running_pcs = None THEN [kind |-> "None"]
    ELSE LET pcs == st.running_pcs[1] IN
         IF pcs.palette_id \notin DOMAIN st.palette_table
         THEN MissingPalette(pcs.palette_id, pcs.composition_number)
         ELSE LET r == render_objects(st, pcs, st.palette_table[pcs.palette_id],
                                      NewImage(pcs.width, pcs.height), 1)
              IN IF r.kind = "Ok" THEN [kind |-> "Image", image |-> r.val] ELSE r

\* Mutant of apply_display_set: the state is rolled back when rendering fails.
apply_display_set_rollback(st, ds) ==
    LET st1 == update_cache(clear_cache(st, ds), ds)
        st2 == [st1 EXCEPT !.running_pcs = update_running_pcs(@, ds.pcs)]
        r == render_pcs(st2)
    IN [st |-> IF r.kind \in {"Image", "None"} THEN st2 ELSE st, result |-> r]

\* process_mkv_frame after a successful read_display_set: the new decoder
\* state and the value returned.  The state is updated before rendering and
\* is kept whatever the render step returns.
apply_display_set(st, ds) ==
    LET st1 == update_cache(clear_cache(st, ds), ds)
        st2 == [st1 EXCEPT !.running_pcs = update_running_pcs(@, ds.pcs)]
    IN [st |-> st2, result |-> render_pcs(st2)]

\* Mutant of process_mkv_frame: the tables are reset when the payload fails to parse.
process_mkv_frame_reset_on_error(st, data) ==
    LET r == read_display_set(data) IN
    IF r.kind = "Ok" THEN apply_display_set(st, r.val)
    ELSE [st |-> [st EXCEPT !.window_table = EmptyMap, !.palette_table = EmptyMap,
                            !.object_table = EmptyMap],
          result |-> r]

\* PgsParser::process_mkv_frame on payload data: [st, result].  A failed
\* read_display_set returns before anything is written.
process_mkv_frame(st, data) ==
    LET r == read_display_set(data) IN
    IF r.kind = "Ok" THEN apply_display_set(st, r.val)
    ELSE [st |-> st, result |-> r]

\* ------------------------------------------------------------------ frame payloads
\* The payloads delivered to the decoder, written out in the wire layout
\* `segment := type:u8, length:u16, payload:u8[length]` the decoders read.

U16BE(n) == <<n \div 256, n % 256>>

U24BE(n) == <<n \div 65536, (n \div 256) % 256, n % 256>>

RECURSIVE Flatten(_)
Flatten(seqs) == IF seqs = << >> THEN << >> ELSE Head(seqs) \o Flatten(Tail(seqs))

Segment(type, payload) == (<<type>> \o U16BE(Len(payload))) \o payload

\* entries: sequence of <<color_id, luminance, alpha>>
PdsSegment(palette_id, entries) ==
    Segment(PGS_SEGMENT_TYPE_PDS,
            <<palette_id, 0>> \o
            Flatten([i \in 1 .. Len(entries) |->
                        <<entries[i][1], entries[i][2], 128, 128, entries[i][3]>>]))

\* one window <<window_id, x, y, width, height>>
WdsSegment(w) ==
    Segment(PGS_SEGMENT_TYPE_WDS,
            <<1, w[1]>> \o U16BE(w[2]) \o U16BE(w[3]) \o U16BE(w[4]) \o U16BE(w[5]))

\* An Object segment carrying chunk, with the given 3-byte length field.
OdsSegment(object_id, flag, declared, width, height, chunk) ==
    Segment(PGS_SEGMENT_TYPE_ODS,
            U16BE(object_id) \o <<0, flag>> \o U24BE(declared) \o U16BE(width)
            \o U16BE(height) \o chunk)

\* one uncropped composition object <<object_id, window_id, x, y>>
CompositionObjectBytes(o) == U16BE(o[1]) \o <<o[2], 0>> \o U16BE(o[3]) \o U16BE(o[4])

PcsSegment(width, height, number, state, palette_id, objs) ==
    Segment(PGS_SEGMENT_TYPE_PCS,
            U16BE(width) \o U16BE(height) \o <<16>> \o U16BE(number)
            \o <<state, 0, palette_id, Len(objs)>>
            \o Flatten([i \in 1 .. Len(objs) |-> CompositionObjectBytes(objs[i])]))

EndSegment == Segment(PGS_SEGMENT_TYPE_END, << >>)

Pds0 == PdsSegment(0, << <<1, 200, 255>> >>)

Pds1 == PdsSegment(1, << <<1, 60, 255>>, <<2, 90, 128>> >>)

Wds0 == WdsSegment(<<0, 1, 0, 2, 2>>)

Wds1 == WdsSegment(<<1, 0, 1, 3, 1>>)

\* object 0: two rows of two color-1 pixels, in one segment
Ods0 == OdsSegment(0, 192, 12, 2, 2, <<1, 1, 0, 0, 1, 1, 0, 0>>)

\* object 1: a run of two color-2 pixels and an end of line
Ods1 == OdsSegment(1, 192, 9, 2, 1, <<0, 130, 2, 0, 0>>)

\* object 0 whose bitmap ends inside an escape sequence
Ods0Truncated == OdsSegment(0, 192, 6, 2, 1, <<1, 0>>)

\* object 0 split over a first and a last segment
Ods0Fragments ==
    OdsSegment(0, 64, 8, 2, 2, <<1, 1, 0, 0>>) \o OdsSegment(0, 128, 8, 2, 2, <<1, 1, 0, 0>>)

\* The definition segments a frame may carry ahead of its composition.
DefinitionMenu ==
    { << >>,
      Pds0 \o Wds0 \o Ods0,
      Pds1 \o Wds1 \o Ods1,
      Pds0,
      Ods0Fragments,
      Ods0Truncated }

\* The composition segments: EpochStart (0x80), Normal (0x00) and
\* AcquisitionPoint (0x40) over palettes 0/1 and objects 0/1.
CompositionMenu ==
    { PcsSegment(4, 2, 1, 128, 0, << <<0, 0, 0, 0>> >>),
      PcsSegment(4, 2, 5, 0, 0, << <<0, 0, 0, 0>> >>),
      PcsSegment(4, 2, 5, 0, 1, << <<1, 1, 0, 0>> >>),
      PcsSegment(4, 2, 7, 0, 0, << <<1, 1, 0, 0>> >>),
      PcsSegment(3, 3, 6, 64, 1, << <<1, 1, 0, 0>> >>),
      PcsSegment(4, 2, 8, 0, 1, << >>) }

WellFormedFrames == { (d \o p) \o EndSegment : d \in DefinitionMenu, p \in CompositionMenu }

\* Malformed payloads: a length field pointing past the end (alone, and after
\* valid segments), an unknown type code, an unknown composition state, no End
\* segment, a header cut short, no composition before End, a palette entry
\* cut short, and an Object flag byte with an unknown bit.
MalformedFrames ==
    { <<PGS_SEGMENT_TYPE_PCS, 0, 50, 1, 2, 3>>,
      Pds1 \o <<PGS_SEGMENT_TYPE_END, 0, 1>>,
      (Pds1 \o Segment(24, <<7>>)) \o EndSegment,
      (Pds1 \o PcsSegment(4, 2, 5, 32, 1, << >>)) \o EndSegment,
      Pds1 \o PcsSegment(4, 2, 5, 0, 1, << >>),
      Pds1 \o <<PGS_SEGMENT_TYPE_PCS, 0>>,
      (Pds1 \o Wds1) \o EndSegment,
      (Segment(PGS_SEGMENT_TYPE_PDS, <<1, 0, 1, 60>>)
          \o PcsSegment(4, 2, 5, 0, 1, << >>)) \o EndSegment,
      (OdsSegment(1, 1, 9, 2, 1, <<0, 130, 2, 0, 0>>)
          \o PcsSegment(4, 2, 5, 0, 1, << >>)) \o EndSegment }

Frames == WellFormedFrames \cup MalformedFrames

\* ------------------------------------------------------------------ the state machine

\* The ids a Display Set defines.
DefinedIds(ds) ==
    [palettes |-> { ds.pds[i].palette_id : i \in 1 .. Len(ds.pds) },
     windows |-> { ds.wds[i].window_id : i \in 1 .. Len(ds.wds) },
     objects |-> { ds.ods[i].object_id : i \in 1 .. Len(ds.ods) }]

\* History of epoch clearing: on an EpochStart Display Set every id cached
\* (or already dropped) so far and not defined by it becomes pre-epoch-only;
\* an id stops being pre-epoch-only when a Display Set defines it again.
NextPreEpoch(data) ==
    LET r == read_display_set(data) IN
    IF r.kind # "Ok" THEN pre_epoch
    ELSE LET def == DefinedIds(r.val)
             old == IF r.val.pcs.composition_state = "EpochStart"
                    THEN [palettes |-> pre_epoch.palettes \cup DOMAIN palette_table,
                          windows |-> pre_epoch.windows \cup DOMAIN window_table,
                          objects |-> pre_epoch.objects \cup DOMAIN object_table]
                    ELSE pre_epoch
         IN [palettes |-> old.palettes \ def.palettes,
             windows |-> old.windows \ def.windows,
             objects |-> old.objects \ def.objects]

Init ==
    /\ running_pcs = NewParser.running_pcs
    /\ window_table = NewParser.window_table
    /\ palette_table = NewParser.palette_table
    /\ object_table = NewParser.object_table
    /\ frame = << >>
    /\ result = [kind |-> "NoCall"]
    /\ pre_epoch = [palettes |-> {}, windows |-> {}, objects |-> {}]
    /\ nframes = 0
    /\ input = None
    /\ image_window = None

\* One call of process_mkv_frame on a frame drawn from payloads.  A panic
\* aborts the process: no frame is decoded after it.
Deliver(payloads) ==
    /\ result.kind # "Panic"
    /\ UNCHANGED <<input, image_window>>
    /\ \E data \in payloads :
          LET out == process_mkv_frame(
                        ParserState(running_pcs, window_table, palette_table, object_table),
                        data)
          IN /\ running_pcs' = out.st.running_pcs
             /\ window_table' = out.st.window_table
             /\ palette_table' = out.st.palette_table
             /\ object_table' = out.st.object_table
             /\ frame' = data
             /\ result' = out.result
             /\ pre_epoch' = NextPreEpoch(data)
             /\ nframes' = nframes + 1

\* One call of process_mkv_frame on the next frame of the track.
ProcessFrame ==
    /\ nframes < MaxFrames
    /\ Deliver(Frames)

Next == ProcessFrame

Spec == Init /\ [][Next]_vars

\* ------------------------------------------------------------------ properties

\* The segment headers of a payload, read off its length fields alone: one
\* [type, size, at, remaining] per header, up to and including the first End
\* header or the first header whose size exceeds the bytes remaining after it.
RECURSIVE SegmentHeaders(_, _, _)
SegmentHeaders(data, pos, acc) ==
    IF Len(data) - pos + 1 < 3 THEN acc
    ELSE LET h == [type |-> data[pos], size |-> data[pos + 1] * 256 + data[pos + 2],
                   at |-> pos, remaining |-> Len(data) - (pos + 2)]
         IN IF h.size > h.remaining \/ h.type = 128 THEN Append(acc, h)
            ELSE SegmentHeaders(data, pos + 3 + h.size, Append(acc, h))

Headers == SegmentHeaders(frame, 1, << >>)

\* A call has been made and its payload passed read_display_set.
FrameRead == nframes > 0 /\ read_display_set(frame).kind = "Ok"

\* The Display Set of the latest payload (meaningful when FrameRead).
DisplaySet == read_display_set(frame).val

MissingKinds == {"MissingPalette", "MissingObject", "MissingWindow"}

\* C1: a payload with a segment header whose declared length exceeds the
\* bytes remaining after the header makes process_mkv_frame return
\* FormatError (no panic, no truncation).
C1_OverlongSegmentIsFormatError ==
    (nframes > 0 /\ \E i \in 1 .. Len(Headers) : Headers[i].size > Headers[i].remaining)
        => result = FormatError

\* C2: a well-framed segment whose type code is none of 0x14, 0x15, 0x16,
\* 0x17, 0x80 makes read_display_set return FormatError, not abort.
C2_UnknownSegmentTypeIsFormatError ==
    (nframes > 0 /\ \E i \in 1 .. Len(Headers) :
                        /\ Headers[i].size <= Headers[i].remaining
                        /\ Headers[i].type \notin {20, 21, 22, 23, 128})
        => result = FormatError

\* The composition_state bytes of the payload's well-framed Composition
\* segments that are long enough to hold one.
CompositionStateBytes ==
    { frame[Headers[i].at + 10] :
        i \in { j \in 1 .. Len(Headers) : /\ Headers[j].type = 22
                                          /\ Headers[j].size <= Headers[j].remaining
                                          /\ Headers[j].size >= 8 } }

\* C3: a Composition segment whose composition_state byte is not 0x00, 0x40
\* or 0x80 yields FormatError; 0x00 / 0x40 / 0x80 decode to Normal /
\* AcquisitionPoint / EpochStart.
C3_BadCompositionStateIsFormatError ==
    /\ (nframes > 0 /\ CompositionStateBytes \ {0, 64, 128} # {}) => result = FormatError
    /\ (FrameRead /\ CompositionStateBytes = {0})
            => DisplaySet.pcs.composition_state = "Normal"
    /\ (FrameRead /\ CompositionStateBytes = {64})
            => DisplaySet.pcs.composition_state = "AcquisitionPoint"
    /\ (FrameRead /\ CompositionStateBytes = {128})
            => DisplaySet.pcs.composition_state = "EpochStart"

\* The running composition's references, against the tables of the state.
CompObjects == running_pcs[1].composition_objects

PaletteMissing == running_pcs[1].palette_id \notin DOMAIN palette_table

ObjectMissing(i) == CompObjects[i].object_id \notin DOMAIN object_table

WindowMissing(i) == CompObjects[i].window_id \notin DOMAIN window_table

AllResolved ==
    /\ ~PaletteMissing
    /\ \A i \in 1 .. Len(CompObjects) : ~ObjectMissing(i) /\ ~WindowMissing(i)

\* What the RLE renderer returns for composition object i of the running
\* composition (its verdict depends on the bitmap and the palette only).
RleVerdict(i) ==
    render_into_image(with_window(NewImage(0, 0), 0, 0, 0, 0),
                      running_pcs[1].palette_id, running_pcs[1].composition_number,
                      palette_table[running_pcs[1].palette_id],
                      object_table[CompObjects[i].object_id].rle_data).res

\* C4: when the RLE renderer fails on a composition object of the running
\* composition (MissingColor or RleFormatError), process_mkv_frame returns
\* that error instead of an image.
C4_RenderErrorIsReturned ==
    (FrameRead /\ running_pcs # None /\ AllResolved)
        => \A i \in 1 .. Len(CompObjects) :
              (/\ RleVerdict(i).kind # "Ok"
               /\ \A j \in 1 .. i - 1 : RleVerdict(j).kind = "Ok")
                  => result = RleVerdict(i)

\* C5: at render time a palette, object or window reference of the running
\* composition that is absent from its table is reported by the matching
\* Missing* error, carrying the missing id and the running composition's
\* number; an image is returned only when every reference was present.
C5_MissingReferenceIsReported ==
    (FrameRead /\ running_pcs # None) =>
        LET cn == running_pcs[1].composition_number IN
        /\ PaletteMissing => result = MissingPalette(running_pcs[1].palette_id, cn)
        /\ (~PaletteMissing /\ \E i \in 1 .. Len(CompObjects) : ObjectMissing(i) \/ WindowMissing(i))
              => \E i \in 1 .. Len(CompObjects) :
                    \/ ObjectMissing(i) /\ result = MissingObject(CompObjects[i].object_id, cn)
                    \/ WindowMissing(i) /\ result = MissingWindow(CompObjects[i].window_id, cn)
        /\ result.kind = "Image" => AllResolved

\* C5 witness: a MissingWindow error for a composition whose palette and
\* object are cached.
C5_Witness ==
    /\ FrameRead /\ running_pcs # None
    /\ result.kind = "MissingWindow"
    /\ ~PaletteMissing
    /\ \E i \in 1 .. Len(CompObjects) : ~ObjectMissing(i) /\ WindowMissing(i)

\* C6: a call that returns FormatError leaves the palette, window and object
\* tables and the running composition exactly as they were.
C6_FormatErrorLeavesStateUnchanged ==
    [][result'.kind = "FormatError"
          => UNCHANGED <<running_pcs, window_table, palette_table, object_table>>]_vars

\* C6 witness: FormatError returned by a decoder that holds a running
\* composition and cached records, for a payload whose valid Palette 1
\* segment precedes the malformation and has not been cached.
C6_Witness ==
    /\ result.kind = "FormatError"
    /\ running_pcs # None
    /\ DOMAIN object_table # {}
    /\ DOMAIN window_table # {}
    /\ DOMAIN palette_table = {0}
    /\ Len(frame) > 3 /\ frame[1] = 20 /\ frame[4] = 1


\* The record of the last element of seq whose id (under key) is id.
LastWith(seq, key(_), id) ==
    seq[CHOOSE i \in 1 .. Len(seq) :
            /\ key(seq[i]) = id
            /\ \A j \in i + 1 .. Len(seq) : key(seq[j]) # id]

WindowId(w) == w.window_id

ObjectId(o) == o.object_id

\* C7: when a call returns MissingPalette, MissingObject or MissingWindow the
\* decoder state already reflects that frame's Display Set: the tables hold
\* only its ids if it is an EpochStart, its palette entries, windows and
\* objects are cached, and the running composition has been replaced (or,
\* for an AcquisitionPoint over a running composition, merged).
C7_MissingReferenceKeepsUpdate ==
    [][result'.kind \in MissingKinds =>
        LET ds == read_display_set(frame').val
            def == DefinedIds(ds)
        IN
        /\ ds.pcs.composition_state = "EpochStart" =>
              /\ DOMAIN palette_table' = def.palettes
              /\ DOMAIN window_table' = def.windows
              /\ DOMAIN object_table' = def.objects
        /\ \A i \in 1 .. Len(ds.pds) :
              /\ ds.pds[i].palette_id \in DOMAIN palette_table'
              /\ \A k \in 1 .. Len(ds.pds[i].entries) :
                    ds.pds[i].entries[k].palette_entry_id
                        \in DOMAIN palette_table'[ds.pds[i].palette_id]
        /\ \A id \in def.windows :
              id \in DOMAIN window_table' /\ window_table'[id] = LastWith(ds.wds, WindowId, id)
        /\ \A id \in def.objects :
              id \in DOMAIN object_table' /\ object_table'[id] = LastWith(ds.ods, ObjectId, id)
        /\ ds.pcs.composition_state # "AcquisitionPoint" => running_pcs' = Some(ds.pcs)
        /\ (ds.pcs.composition_state = "AcquisitionPoint" /\ running_pcs # None) =>
              /\ running_pcs' # None
              /\ running_pcs'[1].composition_number = ds.pcs.composition_number
              /\ running_pcs'[1].composition_objects =
                    running_pcs[1].composition_objects \o ds.pcs.composition_objects
    ]_vars

\* C7 witness: MissingWindow returned for a frame whose Object segments have
\* been cached and whose composition has become the running one.
C7_Witness ==
    /\ FrameRead
    /\ result.kind = "MissingWindow"
    /\ DisplaySet.ods # << >>
    /\ DisplaySet.ods[1].object_id \in DOMAIN object_table
    /\ running_pcs = Some(DisplaySet.pcs)

\* The ids the running composition references.
ReferencesPreEpoch ==
    \/ running_pcs[1].palette_id \in pre_epoch.palettes
    \/ \E i \in 1 .. Len(CompObjects) :
          \/ CompObjects[i].object_id \in pre_epoch.objects
          \/ CompObjects[i].window_id \in pre_epoch.windows

EarlierResolved(i) == \A j \in 1 .. i - 1 : ~ObjectMissing(j) /\ ~WindowMissing(j)

\* C8: after an EpochStart Display Set each table holds exactly the ids that
\* Display Set defines; a later Normal or AcquisitionPoint frame whose running
\* composition references a pre-epoch-only palette, object or window id
\* returns the corresponding missing-reference error.
C8_EpochStartDropsCache ==
    /\ (FrameRead /\ DisplaySet.pcs.composition_state = "EpochStart") =>
          /\ DOMAIN palette_table = DefinedIds(DisplaySet).palettes
          /\ DOMAIN window_table = DefinedIds(DisplaySet).windows
          /\ DOMAIN object_table = DefinedIds(DisplaySet).objects
    /\ (/\ FrameRead
        /\ DisplaySet.pcs.composition_state \in {"Normal", "AcquisitionPoint"}
        /\ running_pcs # None) =>
          LET cn == running_pcs[1].composition_number IN
          /\ ReferencesPreEpoch => result.kind \in MissingKinds
          /\ running_pcs[1].palette_id \in pre_epoch.palettes
                => result = MissingPalette(running_pcs[1].palette_id, cn)
          /\ \A i \in 1 .. Len(CompObjects) :
                (/\ ~PaletteMissing /\ EarlierResolved(i)
                 /\ CompObjects[i].object_id \in pre_epoch.objects)
                    => result = MissingObject(CompObjects[i].object_id, cn)
          /\ \A i \in 1 .. Len(CompObjects) :
                (/\ ~PaletteMissing /\ EarlierResolved(i) /\ ~ObjectMissing(i)
                 /\ CompObjects[i].window_id \in pre_epoch.windows)
                    => result = MissingWindow(CompObjects[i].window_id, cn)

\* C8 witness: a Normal frame, after an EpochStart, whose running composition
\* references an object cached only before the epoch and gets MissingObject.
C8_Witness ==
    /\ FrameRead
    /\ DisplaySet.pcs.composition_state = "Normal"
    /\ running_pcs # None
    /\ result.kind = "MissingObject"
    /\ result.object_id \in pre_epoch.objects

\* C9: an AcquisitionPoint Display Set with composition_number n and objects
\* M, processed while a running composition with objects L exists, leaves a
\* running composition with composition_number n and objects L followed by M.
C9_AcquisitionPointAppends ==
    [][(/\ read_display_set(frame').kind = "Ok"
        /\ read_display_set(frame').val.pcs.composition_state = "AcquisitionPoint"
        /\ running_pcs # None) =>
          /\ running_pcs' # None
          /\ running_pcs'[1].composition_number
                = read_display_set(frame').val.pcs.composition_number
          /\ running_pcs'[1].composition_objects
                = running_pcs[1].composition_objects
                    \o read_display_set(frame').val.pcs.composition_objects
    ]_vars

\* C9 witness: after an AcquisitionPoint frame the running composition holds
\* more objects than that frame's composition brought.
C9_Witness ==
    /\ FrameRead
    /\ DisplaySet.pcs.composition_state = "AcquisitionPoint"
    /\ DisplaySet.pcs.composition_objects # << >>
    /\ running_pcs # None
    /\ Len(CompObjects) > Len(DisplaySet.pcs.composition_objects)
    /\ running_pcs[1].composition_number = DisplaySet.pcs.composition_number

\* C10: a Display Set of any state processed while no running composition
\* exists, and every EpochStart or Normal Display Set, makes its own
\* composition the running composition.
C10_CompositionBecomesRunning ==
    [][(/\ read_display_set(frame').kind = "Ok"
        /\ \/ running_pcs = None
           \/ read_display_set(frame').val.pcs.composition_state \in {"EpochStart", "Normal"})
          => running_pcs' = Some(read_display_set(frame').val.pcs)
    ]_vars

\* ------------------------------------------------------------------ cache upsert (C11)

\* Frames delivered to one decoder in SpecCache.
MaxCacheFrames == 2

\* palette 1 again: color 2 redefined, color 3 added, color 1 not mentioned
Pds1Override == PdsSegment(1, << <<2, 77, 255>>, <<3, 40, 255>> >>)

\* window 1 again, elsewhere
Wds1Moved == WdsSegment(<<1, 2, 0, 1, 1>>)

\* object 1 again, with another bitmap
Ods1Redrawn == OdsSegment(1, 192, 7, 1, 1, <<1, 0, 0>>)

\* Definition segments that define and redefine palette, window and object
\* records, each under an EpochStart (0x80), a Normal (0x00) and an
\* AcquisitionPoint (0x40) composition that shows nothing.
CacheFrames ==
    { (d \o PcsSegment(4, 2, 5, state, 1, << >>)) \o EndSegment :
        d \in { << >>,
                Pds1 \o Wds1 \o Ods1,
                Pds0 \o Wds0 \o Ods0,
                Pds1Override,
                Pds1 \o Pds1Override,
                Pds1Override \o Pds1,
                Wds1Moved \o Ods1Redrawn,
                Wds1 \o Wds1Moved \o Ods1Redrawn \o Ods1 },
        state \in {0, 64, 128} }

ProcessCacheFrame ==
    /\ nframes < MaxCacheFrames
    /\ Deliver(CacheFrames)

SpecCache == Init /\ [][ProcessCacheFrame]_vars

\* The color entries a Display Set carries for palette p, in arrival order.
PaletteEntries(ds, p) ==
    Flatten([i \in 1 .. Len(ds.pds) |->
                IF ds.pds[i].palette_id = p THEN ds.pds[i].entries ELSE << >>])

EntryId(e) == e.palette_entry_id

\* C11: whatever the composition state, the cache is updated per entry.
\* With the tables as they were (emptied first if the frame is an
\* EpochStart): palette p holds its previous entries overridden by the
\* frame's entries for p, so a color id the frame does not mention keeps its
\* (luminance, alpha) and a palette the frame does not mention is unchanged;
\* a window or object record is the frame's last record for its id, and a
\* record with another id is unchanged.
C11_CacheUpsertIsPerEntry ==
    [][read_display_set(frame').kind = "Ok" =>
        LET ds == read_display_set(frame').val
            def == DefinedIds(ds)
            epoch == ds.pcs.composition_state = "EpochStart"
            palettes == IF epoch THEN EmptyMap ELSE palette_table
            windows == IF epoch THEN EmptyMap ELSE window_table
            objects == IF epoch THEN EmptyMap ELSE object_table
        IN
        /\ DOMAIN palette_table' = DOMAIN palettes \cup def.palettes
        /\ \A p \in DOMAIN palette_table' :
              LET E == PaletteEntries(ds, p)
                  mentioned == { E[k].palette_entry_id : k \in 1 .. Len(E) }
                  previous == IF p \in DOMAIN palettes THEN palettes[p] ELSE EmptyMap
              IN /\ DOMAIN palette_table'[p] = DOMAIN previous \cup mentioned
                 /\ \A c \in DOMAIN palette_table'[p] :
                       palette_table'[p][c] =
                          IF c \in mentioned
                          THEN <<LastWith(E, EntryId, c).luminance,
                                 LastWith(E, EntryId, c).transparency>>
                          ELSE previous[c]
        /\ DOMAIN window_table' = DOMAIN windows \cup def.windows
        /\ \A id \in DOMAIN window_table' :
              window_table'[id] = IF id \in def.windows
                                  THEN LastWith(ds.wds, WindowId, id) ELSE windows[id]
        /\ DOMAIN object_table' = DOMAIN objects \cup def.objects
        /\ \A id \in DOMAIN object_table' :
              object_table'[id] = IF id \in def.objects
                                  THEN LastWith(ds.ods, ObjectId, id) ELSE objects[id]
    ]_vars

\* C11 witness: after a second frame that is no EpochStart and carries
\* entries for palette 1 without mentioning color 1, palette 1 holds color 1
\* from the first frame next to the redefined color 2.
C11_Witness ==
    /\ nframes = 2
    /\ FrameRead
    /\ DisplaySet.pcs.composition_state # "EpochStart"
    /\ PaletteEntries(DisplaySet, 1) # << >>
    /\ 1 \in DOMAIN palette_table
    /\ 1 \in DOMAIN palette_table[1]
    /\ 1 \notin { PaletteEntries(DisplaySet, 1)[k].palette_entry_id :
                    k \in 1 .. Len(PaletteEntries(DisplaySet, 1)) }
    /\ palette_table[1][1] = <<60, 255>>
    /\ palette_table[1][2] = <<77, 255>>

\* ------------------------------------------------------------------ one payload through read_display_set (C12, C20)

\* Object segments per payload in SpecRead.
MaxOdsSegments == 3

\* Bitmap chunks told apart by their bytes.
ReadChunks == { <<7>>, <<8, 9>> }

\* The sequence-flag bytes from_bits accepts: neither, first, last, both.
OdsFlags == {0, FIRST_IN_SEQUENCE, LAST_IN_SEQUENCE, FIRST_IN_SEQUENCE + LAST_IN_SEQUENCE}

\* Lists of <<flag, chunk>>, one pair per Object segment of object 0.
FragmentLists ==
    UNION { [1 .. n -> OdsFlags \X ReadChunks] : n \in 0 .. MaxOdsSegments }

\* The bitmap bytes of the object fragment i belongs to, from fragment i on:
\* up to and including the next last-in-sequence fragment.
RECURSIVE ObjectBytesFrom(_, _)
ObjectBytesFrom(frags, i) ==
    IF i > Len(frags) THEN 0
    ELSE Len(frags[i][2])
         + (IF frags[i][1] >= LAST_IN_SEQUENCE THEN 0 ELSE ObjectBytesFrom(frags, i + 1))

\* The Object segments of frags on the wire.  The 3-byte length field of a
\* segment counts its own chunk (declares = "chunk") or, in a first-only
\* segment, the whole object's bitmap (declares = "object"), plus 4.
FragmentBytes(frags, declares) ==
    Flatten([i \in 1 .. Len(frags) |->
                OdsSegment(0, frags[i][1],
                           (IF declares = "object" /\ frags[i][1] = FIRST_IN_SEQUENCE
                            THEN ObjectBytesFrom(frags, i) ELSE Len(frags[i][2])) + 4,
                           2, 1, frags[i][2])])

\* What follows the Object segments: a composition and End, End alone, End
\* ahead of the composition, no End, an End header cut after one or two
\* bytes, nothing.
ReadTails ==
    { PcsSegment(4, 2, 5, 0, 1, << >>) \o EndSegment,
      EndSegment,
      EndSegment \o PcsSegment(4, 2, 5, 0, 1, << >>),
      PcsSegment(4, 2, 5, 0, 1, << >>),
      PcsSegment(4, 2, 5, 0, 1, << >>) \o <<PGS_SEGMENT_TYPE_END>>,
      PcsSegment(4, 2, 5, 0, 1, << >>) \o <<PGS_SEGMENT_TYPE_END, 0>>,
      << >> }

ReadPayloads ==
    { FragmentBytes(f, d) \o t : f \in FragmentLists, d \in {"chunk", "object"}, t \in ReadTails }

\* A fresh decoder and the one payload it is about to be handed.
InitRead ==
    /\ running_pcs = NewParser.running_pcs
    /\ window_table = NewParser.window_table
    /\ palette_table = NewParser.palette_table
    /\ object_table = NewParser.object_table
    /\ frame \in ReadPayloads
    /\ result = [kind |-> "NoCall"]
    /\ pre_epoch = [palettes |-> {}, windows |-> {}, objects |-> {}]
    /\ nframes = 0
    /\ input = None
    /\ image_window = None

\* process_mkv_frame on that payload.
ReadPayload ==
    /\ nframes = 0
    /\ Deliver({frame})

SpecRead == InitRead /\ [][ReadPayload]_vars

\* The Object segment headers of the payload.
OdsHeaders == SelectSeq(Headers, LAMBDA h : h.type = PGS_SEGMENT_TYPE_ODS)

\* The sequence-flag byte and the bitmap chunk (every byte after the height
\* field) of the Object segment with header h.
FlagByte(h) == frame[h.at + 6]

ChunkBytes(h) == SubSeq(frame, h.at + 14, h.at + 2 + h.size)

\* The payload is the Object segments of one object in sequence (one segment
\* flagged first and last, or a first-only segment, segments with neither
\* flag and a last-only segment), then a composition, then End.
OneObjectInSequence ==
    LET n == Len(OdsHeaders) IN
    /\ Len(Headers) = n + 2
    /\ n >= 1
    /\ \A i \in 1 .. Len(Headers) : Headers[i].size <= Headers[i].remaining
    /\ \A i \in 1 .. n : Headers[i].type = PGS_SEGMENT_TYPE_ODS /\ Headers[i].size >= 11
    /\ Headers[n + 1].type = PGS_SEGMENT_TYPE_PCS
    /\ Headers[n + 2].type = PGS_SEGMENT_TYPE_END
    /\ \/ n = 1 /\ FlagByte(Headers[1]) = FIRST_IN_SEQUENCE + LAST_IN_SEQUENCE
       \/ /\ n >= 2
          /\ FlagByte(Headers[1]) = FIRST_IN_SEQUENCE
          /\ FlagByte(Headers[n]) = LAST_IN_SEQUENCE
          /\ \A i \in 2 .. n - 1 : FlagByte(Headers[i]) = 0

\* C12: the Object segments of one object in sequence give a Display Set
\* with exactly one object, whose bitmap bytes are the segments' bitmap
\* chunks concatenated in arrival order (for a single first+last segment:
\* that segment's chunk).
C12_FragmentsConcatenate ==
    (nframes > 0 /\ OneObjectInSequence) =>
        /\ FrameRead
        /\ Len(DisplaySet.ods) = 1
        /\ DisplaySet.ods[1].rle_data =
              Flatten([i \in 1 .. Len(OdsHeaders) |-> ChunkBytes(OdsHeaders[i])])

\* The loop of read_display_set gets past the segment with header h: its
\* length fits, its type is a definition or composition type and its
\* payload decodes.
Decodes(h) ==
    LET body == SubSeq(frame, h.at + 3, h.at + 2 + h.size) IN
    /\ h.size <= h.remaining
    /\ \/ h.type = PGS_SEGMENT_TYPE_PDS /\ parse_pds(body).kind = "Ok"
       \/ h.type = PGS_SEGMENT_TYPE_ODS /\ parse_ods(body).kind = "Ok"
       \/ h.type = PGS_SEGMENT_TYPE_PCS /\ parse_pcs(body).kind = "Ok"
       \/ h.type = PGS_SEGMENT_TYPE_WDS /\ parse_wds(body).kind = "Ok"

\* The loop runs out of payload before any End segment: every segment is
\* passed, and what is left after the last is nothing or less than a header.
Exhausted == \A i \in 1 .. Len(Headers) : Decodes(Headers[i])

\* The loop reaches an End segment having seen no Composition segment.
EndWithoutComposition ==
    /\ Headers # << >>
    /\ Headers[Len(Headers)].type = PGS_SEGMENT_TYPE_END
    /\ Headers[Len(Headers)].size <= Headers[Len(Headers)].remaining
    /\ \A i \in 1 .. Len(Headers) - 1 :
          Decodes(Headers[i]) /\ Headers[i].type # PGS_SEGMENT_TYPE_PCS

\* C20: read_display_set returns a Display Set only if it read an End
\* segment with a Composition segment before it; a payload that runs out, at
\* a segment boundary or inside a segment header, before any End segment
\* gives FormatError, and so does an End segment with no Composition segment
\* before it.
C20_DisplaySetNeedsCompositionAndEnd ==
    nframes > 0 =>
        /\ FrameRead =>
              /\ Headers # << >>
              /\ Headers[Len(Headers)].type = PGS_SEGMENT_TYPE_END
              /\ \E i \in 1 .. Len(Headers) - 1 : Headers[i].type = PGS_SEGMENT_TYPE_PCS
        /\ Exhausted => read_display_set(frame) = FormatError /\ result = FormatError
        /\ EndWithoutComposition => read_display_set(frame) = FormatError /\ result = FormatError

\* C20 witness: a payload that has been read up to two bytes of a further
\* segment header, after an Object and a Composition segment, and has been
\* answered with FormatError.
C20_Witness ==
    /\ nframes > 0
    /\ Exhausted
    /\ Len(Headers) >= 2
    /\ Headers[Len(Headers)].type = PGS_SEGMENT_TYPE_PCS
    /\ Len(frame) = Headers[Len(Headers)].at + 2 + Headers[Len(Headers)].size + 2
    /\ result = FormatError

\* ------------------------------------------------------------------ fragments across Display Sets (C13)

\* Frames delivered to one decoder in SpecFragments.
MaxFragmentFrames == 3

\* Display Sets whose Object segments start, continue or complete object 0,
\* with or without a palette, each with a Normal (0x00) or EpochStart (0x80)
\* composition that shows nothing.
FragmentFrames ==
    { ((d \o FragmentBytes(f, "chunk")) \o PcsSegment(4, 2, 5, state, 1, << >>)) \o EndSegment :
        d \in {<< >>, Pds1}, state \in {0, 128},
        f \in { << >>,
                << <<FIRST_IN_SEQUENCE, <<7>>>> >>,
                << <<0, <<8, 9>>>> >>,
                << <<LAST_IN_SEQUENCE, <<8, 9>>>> >>,
                << <<FIRST_IN_SEQUENCE + LAST_IN_SEQUENCE, <<8, 9>>>> >>,
                << <<FIRST_IN_SEQUENCE, <<7>>>>, <<LAST_IN_SEQUENCE, <<8, 9>>>> >>,
                << <<FIRST_IN_SEQUENCE, <<7>>>>, <<0, <<8, 9>>>> >> } }

ProcessFragmentFrame ==
    /\ nframes < MaxFragmentFrames
    /\ Deliver(FragmentFrames)

SpecFragments == Init /\ [][ProcessFragmentFrame]_vars

\* The pending object (`current_ods`) after the Object segments i.. of the
\* latest payload, given the pending object before them.
RECURSIVE PendingFrom(_, _)
PendingFrom(i, current_ods) ==
    IF i > Len(OdsHeaders) THEN current_ods
    ELSE LET h == OdsHeaders[i]
             this_ods == parse_ods(SubSeq(frame, h.at + 3, h.at + 2 + h.size)).val
         IN PendingFrom(i + 1, reassemble(<< >>, current_ods, this_ods)[2])

\* The object still pending when the End segment of the latest payload was read.
PendingAtEnd == PendingFrom(1, None)

\* C13: an object still pending when the End segment is read is not lost:
\* it is in that Display Set's object list, or the next Display Set is
\* decoded with it as the pending object, so that continuation segments
\* there extend it.
C13_PendingObjectIsCarriedOver ==
    [][(FrameRead /\ PendingAtEnd # None /\ read_display_set(frame').kind = "Ok") =>
          \/ \E i \in 1 .. Len(DisplaySet.ods) : DisplaySet.ods[i] = PendingAtEnd[1]
          \/ read_display_set(frame').val.ods =
                display_set_loop(frame', 1, None, << >>, << >>, << >>, PendingAtEnd).val.ods
    ]_vars

\* ------------------------------------------------------------------ one bitmap through render_into_image (C14)

\* Pixel grids of up to MaxGridWidth x MaxGridHeight color ids, and one row
\* with a run of LongRunLength pixels (a run length that needs the high bits
\* of the 14-bit form).
MaxGridWidth == 2

MaxGridHeight == 2

LongRunLength == 258

\* The palette of SpecRle: two colors, both written when pushed.
RlePalette == (1 :> <<200, 255>>) @@ (2 :> <<90, 128>>)

\* Color id 0 is the transparent color of the run escapes.
GridColors == {0, 1, 2}

Grids ==
    UNION { [1 .. h -> [1 .. w -> GridColors]] : w \in 1 .. MaxGridWidth, h \in 1 .. MaxGridHeight }

\* One row: LongRunLength pixels of color 0 or 1, then one pixel of color 2.
LongRows == { << [i \in 1 .. LongRunLength |-> c] \o <<2>> >> : c \in {0, 1} }

\* The pixel render_into_image pushes for color id c.
PixelOf(c) == IF c = 0 THEN <<0, 0>> ELSE RlePalette[c]

\* The number of pixels of the run that starts at row[i].
RunLength(row, i) ==
    CHOOSE l \in 1 .. Len(row) - i + 1 :
        /\ \A k \in 0 .. l - 1 : row[i + k] = row[i]
        /\ i + l > Len(row) \/ row[i + l] # row[i]

\* A reference encoding of l pixels of color c in the given form.  A run of
\* color 0 is a short (0x00 00LLLLLL) or, in form "long", a 14-bit
\* (0x00 01LLLLLL LL) transparent run; a run of another color is l literal
\* bytes, a short (0x00 10LLLLLL C) or a 14-bit (0x00 11LLLLLL LL C) colored
\* run.  A short form that cannot hold l falls back to the 14-bit form.
EncodeRun(c, l, form) ==
    IF c = 0
    THEN IF form # "long" /\ l <= 63 THEN <<0, l>>
         ELSE <<0, 64 + (l \div 256), l % 256>>
    ELSE IF form = "literal" THEN [i \in 1 .. l |-> c]
         ELSE IF form = "short" /\ l <= 63 THEN <<0, 128 + l, c>>
         ELSE <<0, 192 + (l \div 256), l % 256, c>>

\* The runs of row from position i on, then the end-of-line escape 0x00 0x00.
RECURSIVE EncodeRow(_, _, _)
EncodeRow(row, i, form) ==
    IF i > Len(row) THEN <<0, 0>>
    ELSE EncodeRun(row[i], RunLength(row, i), form)
         \o EncodeRow(row, i + RunLength(row, i), form)

EncodeGrid(in) ==
    Flatten([y \in 1 .. Len(in.grid) |-> EncodeRow(in.grid[y], 1, in.form)])

\* Every grid in every form; the long rows with their run in the 14-bit form.
RleInputs ==
    [grid : Grids, form : {"literal", "short", "long"}] \cup [grid : LongRows, form : {"long"}]

\* A pixel grid, its encoding, and a window that covers a blank canvas of
\* the grid's size.
InitRle ==
    /\ running_pcs = NewParser.running_pcs
    /\ window_table = NewParser.window_table
    /\ palette_table = NewParser.palette_table
    /\ object_table = NewParser.object_table
    /\ input \in RleInputs
    /\ frame = EncodeGrid(input)
    /\ image_window = with_window(NewImage(Len(input.grid[1]), Len(input.grid)), 0, 0,
                                  Len(input.grid[1]), Len(input.grid))
    /\ result = [kind |-> "NoCall"]
    /\ pre_epoch = [palettes |-> {}, windows |-> {}, objects |-> {}]
    /\ nframes = 0

\* render_into_image on the encoded grid.
RenderBitmap ==
    /\ result.kind = "NoCall"
    /\ LET r == render_into_image(image_window, 0, 0, RlePalette, frame)
       IN /\ image_window' = r.image
          /\ result' = r.res
    /\ UNCHANGED <<running_pcs, window_table, palette_table, object_table, frame, pre_epoch,
                   nframes, input>>

SpecRle == InitRle /\ [][RenderBitmap]_vars

\* C14: decoding the reference encoding of a pixel grid succeeds and puts
\* exactly the grid's pixels on the canvas in raster order: the pixel of
\* column x of row y at (x, y), each end-of-line escape having moved the
\* cursor to column 0 of the next row and pushed no pixel.
C14_RleRoundTrip ==
    result.kind # "NoCall" =>
        /\ result = Ok(<< >>)
        /\ image_window.image.px =
              [c \in (0 .. Len(input.grid[1]) - 1) \X (0 .. Len(input.grid) - 1) |->
                  PixelOf(input.grid[c[2] + 1][c[1] + 1])]
        /\ image_window.x_cursor = 0
        /\ image_window.y_cursor = Len(input.grid)

\* C14 witness: a row of LongRunLength color-1 pixels and one color-2 pixel,
\* encoded as a 14-bit colored run whose length has a high part, has been
\* decoded: the last pixel of the run and the pixel after it are in place.
C14_Witness ==
    /\ result.kind = "Ok"
    /\ input.form = "long"
    /\ Len(input.grid[1]) = LongRunLength + 1
    /\ SubSeq(frame, 1, 4) = <<0, 192 + (LongRunLength \div 256), LongRunLength % 256, 1>>
    /\ LongRunLength >= 256
    /\ image_window.image.px[<<LongRunLength - 1, 0>>] = <<200, 255>>
    /\ image_window.image.px[<<LongRunLength, 0>>] = <<90, 128>>

\* ------------------------------------------------------------------ the compositor alone (C15, C16)

\* The cursor columns and rows reached in SpecCompositor.
MaxColumn == 4

MaxRow == 3

\* The pixels pushed: transparent, a palette color with alpha 0, two opaque colors.
PushedPixels == { <<0, 0>>, <<90, 0>>, <<200, 255>>, <<60, 255>> }

\* The windows an object is drawn through: the whole 3x2 canvas; a 2x2
\* window at (2, 1), which reaches one column and one row beyond the canvas;
\* a 2x2 window at (1, 0) cropped from (1, 0).
Windows(image) ==
    { with_window(image, 0, 0, 3, 2),
      with_window(image, 2, 1, 2, 2),
      with_window_cropped(image, 1, 0, 2, 2, 1, 0) }

\* A blank 3x2 canvas and the window of the first object.
InitCompositor ==
    /\ running_pcs = NewParser.running_pcs
    /\ window_table = NewParser.window_table
    /\ palette_table = NewParser.palette_table
    /\ object_table = NewParser.object_table
    /\ frame = << >>
    /\ result = [kind |-> "NoCall"]
    /\ pre_epoch = [palettes |-> {}, windows |-> {}, objects |-> {}]
    /\ nframes = 0
    /\ image_window \in Windows(NewImage(3, 2))
    /\ input = [op |-> "with_window", pixel |-> None]

\* The renderer moves on to the next composition object: a new window over
\* the same canvas.
BeginObject ==
    /\ \E w \in Windows(image_window.image) : image_window' = w
    /\ input' = [op |-> "with_window", pixel |-> None]
    /\ UNCHANGED <<running_pcs, window_table, palette_table, object_table, frame, result,
                   pre_epoch, nframes>>

PushPixel ==
    /\ image_window.x_cursor < MaxColumn
    /\ \E pixel \in PushedPixels :
          /\ image_window' = push_pixel(image_window, pixel)
          /\ input' = [op |-> "push_pixel", pixel |-> Some(pixel)]
    /\ UNCHANGED <<running_pcs, window_table, palette_table, object_table, frame, result,
                   pre_epoch, nframes>>

EndLine ==
    /\ image_window.y_cursor < MaxRow
    /\ image_window' = end_line(image_window)
    /\ input' = [op |-> "end_line", pixel |-> None]
    /\ UNCHANGED <<running_pcs, window_table, palette_table, object_table, frame, result,
                   pre_epoch, nframes>>

NextCompositor == BeginObject \/ PushPixel \/ EndLine

SpecCompositor == InitCompositor /\ [][NextCompositor]_vars

\* The window-local coordinate of cursor position (col, row) of window w
\* (the cursor position moved by the crop origin), whether the window shows
\* it, and its absolute coordinate: window placement + local coordinate.
Local(w, col, row) ==
    IF w.crop_origin = None THEN <<col, row>>
    ELSE <<col - w.crop_origin[1][1], row - w.crop_origin[1][2]>>

Shown(w, col, row) ==
    /\ Local(w, col, row)[1] >= 0 /\ Local(w, col, row)[1] < w.width
    /\ Local(w, col, row)[2] >= 0 /\ Local(w, col, row)[2] < w.height

Absolute(w, col, row) == <<w.x + Local(w, col, row)[1], w.y + Local(w, col, row)[2]>>

OutsideCanvas(w, c) == c[1] >= w.image.width \/ c[2] >= w.image.height

\* C15: a pushed pixel whose absolute coordinate lies outside the canvas is
\* dropped.  For every push_pixel: if the target is outside the canvas the
\* canvas is unchanged; the canvas never gains a coordinate; the cursor
\* moves one column to the right in the same row; no coordinate other than
\* the target changes; and a visible pixel whose target is on the canvas
\* and inside the window is written at that target, however many pixels
\* before it in the row were dropped.
C15_OutOfCanvasPixelIsDropped ==
    [][input'.op = "push_pixel" =>
        LET w == image_window
            pixel == input'.pixel[1]
            target == Absolute(w, w.x_cursor, w.y_cursor)
        IN
        /\ OutsideCanvas(w, target) => image_window'.image = w.image
        /\ DOMAIN image_window'.image.px = (0 .. w.image.width - 1) \X (0 .. w.image.height - 1)
        /\ image_window'.x_cursor = w.x_cursor + 1
        /\ image_window'.y_cursor = w.y_cursor
        /\ \A c \in DOMAIN w.image.px : c # target => image_window'.image.px[c] = w.image.px[c]
        /\ (Shown(w, w.x_cursor, w.y_cursor) /\ ~OutsideCanvas(w, target) /\ pixel[2] # 0)
              => image_window'.image.px[target] = pixel
    ]_vars

\* The cursor position of the latest push (the cursor has advanced since).
PushedAt == <<image_window.x_cursor - 1, image_window.y_cursor>>

\* C15 witness: an opaque pixel has been pushed at a cursor position the
\* window shows but whose absolute coordinate is beyond the canvas, after an
\* opaque pixel in the same row that is on the canvas.
C15_Witness ==
    /\ input.op = "push_pixel"
    /\ input.pixel[1][2] # 0
    /\ Shown(image_window, PushedAt[1], PushedAt[2])
    /\ OutsideCanvas(image_window, Absolute(image_window, PushedAt[1], PushedAt[2]))
    /\ PushedAt[1] >= 1
    /\ ~OutsideCanvas(image_window, Absolute(image_window, PushedAt[1] - 1, PushedAt[2]))
    /\ image_window.image.px[Absolute(image_window, PushedAt[1] - 1, PushedAt[2])][2] # 0

\* C16: a push of a pixel whose alpha is 0 leaves the whole canvas as it
\* was, so a coordinate an earlier object wrote opaque keeps its value.
C16_TransparentPixelLeavesCanvas ==
    [][(input'.op = "push_pixel" /\ input'.pixel[1][2] = 0) =>
          image_window'.image = image_window.image]_vars

\* C16 witness: a palette color with alpha 0 and non-zero luminance has been
\* pushed at a coordinate that an earlier object had written opaque.
C16_Witness ==
    /\ input.op = "push_pixel"
    /\ input.pixel[1] = <<90, 0>>
    /\ Shown(image_window, PushedAt[1], PushedAt[2])
    /\ ~OutsideCanvas(image_window, Absolute(image_window, PushedAt[1], PushedAt[2]))
    /\ image_window.image.px[Absolute(image_window, PushedAt[1], PushedAt[2])][2] = 255

\* ------------------------------------------------------------------ one frame, end to end (C17)

\* The bitmap of a 4x2 object of color 1: two rows of four pixels, as literal
\* bytes or as short runs, each row closed by the end-of-line escape.
FourByTwo(form) ==
    IF form = "literal" THEN <<1, 1, 1, 1, 0, 0, 1, 1, 1, 1, 0, 0>>
    ELSE <<0, 132, 1, 0, 0, 0, 132, 1, 0, 0>>

\* A frame with Palette 0 {1 -> (luminance, 255)}, Window 0 at (wx, wy) of
\* size 20x20, the unfragmented 4x2 Object 0 and an EpochStart composition
\* on a 100x100 canvas with palette 0 and one uncropped composition object
\* (object 0 in window 0) at offset (ox, 0).
ScenarioFrame(in) ==
    (((PdsSegment(0, << <<1, in.luminance, 255>> >>)
       \o WdsSegment(<<0, in.wx, in.wy, 20, 20>>))
       \o OdsSegment(0, FIRST_IN_SEQUENCE + LAST_IN_SEQUENCE, Len(FourByTwo(in.form)) + 4,
                     4, 2, FourByTwo(in.form)))
       \o PcsSegment(100, 100, 1, 128, 0, << <<0, 0, in.ox, 0>> >>))
    \o EndSegment

\* The scenario of the specification (window at (10, 10), luminance 200,
\* offset 0) and its neighbours.
Scenarios ==
    [wx : 9 .. 11, wy : 9 .. 11, luminance : {200, 90}, ox : {0, 1}, form : {"literal", "run"}]

\* A fresh decoder and the frame of one scenario.
InitEndToEnd ==
    /\ running_pcs = NewParser.running_pcs
    /\ window_table = NewParser.window_table
    /\ palette_table = NewParser.palette_table
    /\ object_table = NewParser.object_table
    /\ input \in Scenarios
    /\ frame = ScenarioFrame(input)
    /\ result = [kind |-> "NoCall"]
    /\ pre_epoch = [palettes |-> {}, windows |-> {}, objects |-> {}]
    /\ nframes = 0
    /\ image_window = None

\* process_mkv_frame on that frame.
DecodeScenario ==
    /\ nframes = 0
    /\ Deliver({frame})

SpecEndToEnd == InitEndToEnd /\ [][DecodeScenario]_vars

\* C17: the frame of a scenario decodes to Ok(Some(image)) with a 100x100
\* image that holds (luminance, 255) in the 4x2 rectangle whose corner is
\* the window position moved by the object offset, and (0, 0) everywhere
\* else; for the window at (10, 10), luminance 200 and offset (0, 0) that is
\* (200, 255) for 10 <= x < 14, 10 <= y < 12.
C17_EndToEndRectangle ==
    nframes > 0 =>
        /\ result.kind = "Image"
        /\ result.image.width = 100
        /\ result.image.height = 100
        /\ result.image.px =
              [c \in (0 .. 99) \X (0 .. 99) |->
                  IF /\ input.wx + input.ox <= c[1] /\ c[1] < input.wx + input.ox + 4
                     /\ input.wy <= c[2] /\ c[2] < input.wy + 2
                  THEN <<input.luminance, 255>> ELSE <<0, 0>>]

\* C17 witness: the scenario of the specification has been decoded, and the
\* corners of the rectangle x in [10, 14), y in [10, 12) are opaque
\* luminance 200 while the pixels next to them are transparent.
C17_Witness ==
    /\ nframes > 0
    /\ input = [wx |-> 10, wy |-> 10, luminance |-> 200, ox |-> 0, form |-> "literal"]
    /\ result.kind = "Image"
    /\ result.image.px[<<10, 10>>] = <<200, 255>>
    /\ result.image.px[<<13, 11>>] = <<200, 255>>
    /\ result.image.px[<<9, 10>>] = <<0, 0>>
    /\ result.image.px[<<14, 11>>] = <<0, 0>>
    /\ result.image.px[<<13, 12>>] = <<0, 0>>

\* ------------------------------------------------------------------ the image and the running composition (C18, C19)

\* C18: an image returned by process_mkv_frame has the width and height of
\* the running composition as it is after that frame's update; and an
\* AcquisitionPoint Display Set merged into a running composition leaves
\* that composition's width, height and palette_id as they were, whatever
\* the AcquisitionPoint composition declares.
C18_ImageHasRunningCanvasSize ==
    [][/\ result'.kind = "Image" =>
            /\ running_pcs' # None
            /\ result'.image.width = running_pcs'[1].width
            /\ result'.image.height = running_pcs'[1].height
            /\ DOMAIN result'.image.px =
                  (0 .. running_pcs'[1].width - 1) \X (0 .. running_pcs'[1].height - 1)
       /\ (/\ read_display_set(frame').kind = "Ok"
           /\ read_display_set(frame').val.pcs.composition_state = "AcquisitionPoint"
           /\ running_pcs # None) =>
            /\ running_pcs' # None
            /\ running_pcs'[1].width = running_pcs[1].width
            /\ running_pcs'[1].height = running_pcs[1].height
            /\ running_pcs'[1].palette_id = running_pcs[1].palette_id
    ]_vars

\* C18 witness: an image has been returned for an AcquisitionPoint frame
\* whose composition declares another canvas size and another palette than
\* the running composition it was merged into.
C18_Witness ==
    /\ FrameRead
    /\ DisplaySet.pcs.composition_state = "AcquisitionPoint"
    /\ result.kind = "Image"
    /\ result.image.width # DisplaySet.pcs.width
    /\ result.image.height # DisplaySet.pcs.height
    /\ running_pcs[1].palette_id # DisplaySet.pcs.palette_id

\* C19: process_mkv_frame returns Ok(None) exactly when the payload passed
\* read_display_set and no running composition exists after the update; a
\* running composition, once there, stays; so a frame that passes
\* read_display_set while a running composition exists returns an image or
\* an error.
C19_NoImageIffNoRunningComposition ==
    [][/\ result'.kind = "None" <=>
            (read_display_set(frame').kind = "Ok" /\ running_pcs' = None)
       /\ running_pcs # None => running_pcs' # None
       /\ (running_pcs # None /\ read_display_set(frame').kind = "Ok") =>
            result'.kind \in {"Image", "MissingPalette", "MissingObject", "MissingWindow"}
    ]_vars

\* C19 witness: a second frame has passed read_display_set and cached an
\* object, and the call returned Ok(None) because there is still no running
\* composition.
C19_Witness ==
    /\ nframes >= 2
    /\ FrameRead
    /\ object_table # EmptyMap
    /\ running_pcs = None
    /\ result.kind = "None"

\* ------------------------------------------------------------------ one Object segment through parse_ods (C21, C22)

\* Largest value of the 3-byte length field in SpecObject.
MaxDeclaredLength == 7

\* Bitmap chunks of the first Object segment: none, one byte, two bytes.
ObjectChunks == { << >>, <<7>>, <<8, 9>> }

\* Sequence-flag bytes: the values built from bits 6 and 7 and the values
\* built from bits 0 and 1.
SequenceFlagBytes == {0, 1, 2, 3, 64, 128, 192}

\* A second Object segment, if any: a flag byte and a chunk, its length
\* field counting its own chunk.
SecondSegments ==
    { << >> } \cup
    { OdsSegment(0, flag, Len(chunk) + 4, 2, 1, chunk) :
          flag \in SequenceFlagBytes, chunk \in { <<5>>, <<6, 4>> } }

\* One Object segment with any length field, an optional second one, a
\* Normal composition and End.
ObjectPayloads ==
    { OdsSegment(0, flag, declared, 2, 1, chunk) \o second
          \o PcsSegment(4, 2, 5, 0, 1, << >>) \o EndSegment :
          flag \in SequenceFlagBytes, declared \in 0 .. MaxDeclaredLength,
          chunk \in ObjectChunks, second \in SecondSegments }

\* A fresh decoder and the one payload it is about to be handed.
InitObject ==
    /\ running_pcs = NewParser.running_pcs
    /\ window_table = NewParser.window_table
    /\ palette_table = NewParser.palette_table
    /\ object_table = NewParser.object_table
    /\ frame \in ObjectPayloads
    /\ result = [kind |-> "NoCall"]
    /\ pre_epoch = [palettes |-> {}, windows |-> {}, objects |-> {}]
    /\ nframes = 0
    /\ input = None
    /\ image_window = None

\* process_mkv_frame on that payload.
ReadObject ==
    /\ nframes = 0
    /\ Deliver({frame})

SpecObject == InitObject /\ [][ReadObject]_vars

\* The payload of the segment with header h.
SegmentBody(h) == SubSeq(frame, h.at + 3, h.at + 2 + h.size)

\* C21: an Object segment with the full 11-byte header (and a flag byte the
\* decoder accepts) decodes, and its rle_data is every byte of the segment
\* after the height field, whatever its 3-byte length field says; the call
\* does not fail on the first such segment of a payload.
C21_ChunkIsRestOfSegment ==
    nframes > 0 =>
        /\ \A i \in 1 .. Len(OdsHeaders) :
              LET h == OdsHeaders[i] IN
              (h.size >= 11 /\ h.size <= h.remaining /\ from_bits(FlagByte(h)) # None) =>
                  /\ parse_ods(SegmentBody(h)).kind = "Ok"
                  /\ parse_ods(SegmentBody(h)).val.rle_data = ChunkBytes(h)
        /\ (\A i \in 1 .. Len(OdsHeaders) : from_bits(FlagByte(OdsHeaders[i])) # None) =>
              result.kind # "FormatError"

\* The Object segments are one segment whose flag byte has bits 0 and 1 set,
\* or a segment with bit 0 alone followed by a segment with bit 1 alone;
\* every length field counts the segment's own chunk.
BitZeroOneSequence ==
    /\ \A i \in 1 .. Len(OdsHeaders) :
          U24At(frame, OdsHeaders[i].at + 7) = Len(ChunkBytes(OdsHeaders[i])) + 4
    /\ \/ Len(OdsHeaders) = 1 /\ FlagByte(OdsHeaders[1]) = 3
       \/ /\ Len(OdsHeaders) = 2
          /\ FlagByte(OdsHeaders[1]) = 1
          /\ FlagByte(OdsHeaders[2]) = 2

\* C22: a flag byte with bits 0 and 1 set marks a single unfragmented
\* object, and bit 0 alone followed by bit 1 alone marks the first and the
\* last fragment of one object: either way the Display Set holds exactly
\* one object, whose bitmap is the chunks in arrival order.
C22_FlagBitsZeroAndOne ==
    (nframes > 0 /\ BitZeroOneSequence) =>
        /\ FrameRead
        /\ Len(DisplaySet.ods) = 1
        /\ DisplaySet.ods[1].rle_data =
              Flatten([i \in 1 .. Len(OdsHeaders) |-> ChunkBytes(OdsHeaders[i])])

\* ------------------------------------------------------------------ reassembler flush and leniency (C23)

\* Segment i of the payload's Object segments carries the first / the last flag.
IsFirst(i) == contains(FlagByte(OdsHeaders[i]), FIRST_IN_SEQUENCE)

IsLast(i) == contains(FlagByte(OdsHeaders[i]), LAST_IN_SEQUENCE)

\* An object is pending when segment i arrives: an earlier first-only
\* segment, and since then only segments with neither flag.
PendingBefore(i) ==
    \E j \in 1 .. i - 1 :
        /\ IsFirst(j) /\ ~IsLast(j)
        /\ \A m \in j + 1 .. i - 1 : ~IsFirst(m) /\ ~IsLast(m)

\* The last segment of the object opened by first-flagged segment j: the
\* earliest one from j on that carries the last flag, is followed by a
\* first-flagged segment, or is the payload's last Object segment.
ObjectEnd(j) ==
    LET n == Len(OdsHeaders)
        Stops(k) == IsLast(k) \/ k = n \/ IsFirst(k + 1)
    IN CHOOSE k \in j .. n : Stops(k) /\ \A m \in j .. k - 1 : ~Stops(m)

\* The object opened by segment j is emitted: complete, or partial because a
\* first-flagged segment follows it.
Emitted(j) == IsFirst(j) /\ (IsLast(ObjectEnd(j)) \/ ObjectEnd(j) < Len(OdsHeaders))

\* The bitmaps the Display Set is to hold, in order.
EmittedBitmaps ==
    LET opened == SelectSeq([i \in 1 .. Len(OdsHeaders) |-> i], Emitted)
    IN [a \in 1 .. Len(opened) |->
            Flatten([i \in 1 .. ObjectEnd(opened[a]) - opened[a] + 1 |->
                        ChunkBytes(OdsHeaders[opened[a] + i - 1])])]

\* The payload is Object segments that each decode, then a composition, then End.
ObjectsThenComposition ==
    LET n == Len(OdsHeaders) IN
    /\ Len(Headers) = n + 2
    /\ \A i \in 1 .. n : Headers[i].type = PGS_SEGMENT_TYPE_ODS /\ Decodes(Headers[i])
    /\ Headers[n + 1].type = PGS_SEGMENT_TYPE_PCS /\ Decodes(Headers[n + 1])
    /\ Headers[n + 2].type = PGS_SEGMENT_TYPE_END
    /\ Headers[n + 2].size <= Headers[n + 2].remaining

\* C23: Object segments raise no error whatever their flags; a pending
\* object is emitted, as far as it got, when a first-flagged segment arrives,
\* ahead of that segment's object; a last-only or neither-flag segment with
\* no object pending emits nothing.  So the Display Set's bitmaps are the
\* emitted objects' bitmaps in order, and with nothing opened there are none.
C23_FlushAndLeniency ==
    (nframes > 0 /\ ObjectsThenComposition) =>
        /\ FrameRead
        /\ [a \in 1 .. Len(DisplaySet.ods) |-> DisplaySet.ods[a].rle_data] = EmittedBitmaps
        /\ (\A i \in 1 .. Len(OdsHeaders) : ~IsFirst(i)) => DisplaySet.ods = << >>

\* C23 witness: a payload has been read whose first Object segment was
\* dropped (not first-flagged, nothing pending) and whose third arrived
\* first-flagged while the second was pending, and the second's partial
\* bitmap heads the Display Set's objects.
C23_Witness ==
    /\ nframes > 0
    /\ ObjectsThenComposition
    /\ Len(OdsHeaders) = 3
    /\ ~IsFirst(1)
    /\ IsFirst(3) /\ PendingBefore(3)
    /\ FrameRead
    /\ Len(DisplaySet.ods) >= 1
    /\ DisplaySet.ods[1].rle_data = ChunkBytes(OdsHeaders[2])

\* ------------------------------------------------------------------ the RLE renderer, directive by directive (C24, C27)

\* Directives per bitmap in SpecDirectives.
MaxDirectives == 3

\* The directives: a literal pixel; end of line; a short and a 14-bit
\* transparent run; a short and a 14-bit colored run; runs of length 0 whose
\* follower byte is not 0 (0x40 0x00, 0x80 C); a literal of a color the
\* palette lacks; an escape cut short.
Directives ==
    { <<1>>, <<0, 0>>, <<0, 2>>, <<0, 64, 3>>, <<0, 130, 2>>, <<0, 192, 2, 1>>,
      <<0, 64, 0>>, <<0, 128, 1>>, <<9>>, <<0>> }

\* The longest runs: 0x00 0x7F 0xFF and 0x00 0xFF 0xFF C.
LongestRuns == { <<0, 127, 255>>, <<0, 255, 255, 1>> }

Bitmaps ==
    { Flatten(ds) : ds \in UNION { [1 .. n -> Directives] : n \in 0 .. MaxDirectives } }
    \cup LongestRuns

\* A bitmap, a window over a blank 3x2 canvas, the cursor at the first byte.
InitDirectives ==
    /\ running_pcs = NewParser.running_pcs
    /\ window_table = NewParser.window_table
    /\ palette_table = NewParser.palette_table
    /\ object_table = NewParser.object_table
    /\ frame \in Bitmaps
    /\ input = [pos |-> 1]
    /\ image_window = with_window(NewImage(3, 2), 0, 0, 3, 2)
    /\ result = [kind |-> "NoCall"]
    /\ pre_epoch = [palettes |-> {}, windows |-> {}, objects |-> {}]
    /\ nframes = 0

\* One iteration of render_into_image's loop, until it returns.
RenderDirective ==
    /\ result.kind \in {"NoCall", "Continue"}
    /\ LET r == render_directive(image_window, 0, 0, RlePalette, frame, input.pos)
       IN /\ image_window' = r.image
          /\ input' = [pos |-> r.pos]
          /\ result' = r.res
    /\ UNCHANGED <<running_pcs, window_table, palette_table, object_table, frame, pre_epoch,
                   nframes>>

SpecDirectives == InitDirectives /\ [][RenderDirective]_vars

\* The loop is at an end-of-line escape: 0x00 followed by 0x00.
AtEndOfLine ==
    /\ result.kind \in {"NoCall", "Continue"}
    /\ read_u8(frame, input.pos) = Some(0)
    /\ read_u8(frame, input.pos + 1) = Some(0)

\* C24: the iteration at an end-of-line escape sets the column cursor to 0,
\* adds one to the row cursor, leaves the canvas as it was and consumes two
\* bytes; every other iteration leaves the row cursor as it was.
C24_OnlyEndOfLineAdvancesRow ==
    [][/\ AtEndOfLine =>
            /\ result'.kind = "Continue"
            /\ image_window'.x_cursor = 0
            /\ image_window'.y_cursor = image_window.y_cursor + 1
            /\ image_window'.image = image_window.image
            /\ input'.pos = input.pos + 2
       /\ ~AtEndOfLine => image_window'.y_cursor = image_window.y_cursor
    ]_vars

\* C24 witness: the loop has passed a run of length 0 whose follower byte is
\* not 0, with the cursor still on row 0, and then an end-of-line escape,
\* which put it at column 0 of row 1.
C24_Witness ==
    /\ result.kind = "Continue"
    /\ input.pos = 6
    /\ SubSeq(frame, 1, 5) = <<0, 64, 0, 0, 0>>
    /\ image_window.x_cursor = 0
    /\ image_window.y_cursor = 1

\* ------------------------------------------------------------------ compositor coordinate mapping (C25)

\* C25: a pixel with non-zero alpha pushed at cursor (c, r) into a window at
\* (X, Y) of size (W, H) with crop origin (cx, cy), (0, 0) when none is
\* configured, is written at (X + c - cx, Y + r - cy) if and only if
\* c >= cx, r >= cy, c - cx < W, r - cy < H and that coordinate is on the
\* canvas; otherwise the canvas is unchanged.  Either way the cursor moves
\* one column to the right in the same row: a pixel past the window width
\* is discarded and does not wrap.
C25_CoordinateMapping ==
    [][(input'.op = "push_pixel" /\ input'.pixel[1][2] # 0) =>
        LET w == image_window
            c == w.x_cursor
            r == w.y_cursor
            cx == IF w.crop_origin = None THEN 0 ELSE w.crop_origin[1][1]
            cy == IF w.crop_origin = None THEN 0 ELSE w.crop_origin[1][2]
            tx == w.x + c - cx
            ty == w.y + r - cy
            written == /\ c >= cx /\ r >= cy
                       /\ c - cx < w.width /\ r - cy < w.height
                       /\ tx < w.image.width /\ ty < w.image.height
        IN
        /\ written => image_window'.image.px =
                          [w.image.px EXCEPT ![<<tx, ty>>] = input'.pixel[1]]
        /\ ~written => image_window'.image = w.image
        /\ image_window'.x_cursor = c + 1
        /\ image_window'.y_cursor = r
    ]_vars

\* C25 witness: an opaque pixel has been pushed at cursor (2, 1) into the
\* window placed at (1, 0) and cropped from (1, 0), and is on the canvas at
\* (1 + 2 - 1, 0 + 1 - 0) = (2, 1), while (1, 1) is still blank.
C25_Witness ==
    /\ input.op = "push_pixel"
    /\ input.pixel[1][2] # 0
    /\ image_window.crop_origin = Some(<<1, 0>>)
    /\ image_window.x = 1 /\ image_window.y = 0
    /\ image_window.x_cursor = 3 /\ image_window.y_cursor = 1
    /\ image_window.image.px[<<2, 1>>] = input.pixel[1]
    /\ image_window.image.px[<<1, 1>>] = <<0, 0>>

\* ------------------------------------------------------------------ several composition objects on one canvas (C26, C28, C29)

\* Composition objects in the first frame's composition in SpecLayers.
MaxLayers == 2

\* Palette 1 (color 1 opaque, color 2 half transparent), window 0 (2x2 at
\* (1, 0)), window 1 (3x1 at (0, 1)), object 0 (2x2 of color 1) and object 1
\* (two pixels of color 2).
LayerDefinitions == Pds1 \o Wds0 \o Wds1 \o Ods0 \o Ods1

\* Composition objects <<object_id, window_id, x, y>>: the two objects in
\* either window, object 0 moved one column to the right, and entries whose
\* object (id 2), window (id 2) or both are defined nowhere.
LayerEntries ==
    { <<0, 0, 0, 0>>, <<0, 0, 1, 0>>, <<1, 1, 0, 0>>, <<0, 1, 0, 0>>, <<1, 0, 0, 0>>,
      <<2, 0, 0, 0>>, <<0, 2, 0, 0>>, <<2, 2, 0, 0>> }

\* The first frame: the definitions and an EpochStart composition on a 4x2
\* canvas with palette 1 or the undefined palette 0.
EpochFrames ==
    { (LayerDefinitions \o PcsSegment(4, 2, 1, 128, p, objs)) \o EndSegment :
          p \in {0, 1},
          objs \in UNION { [1 .. n -> LayerEntries] : n \in 0 .. MaxLayers } }

\* The second frame: an AcquisitionPoint composition with at most one entry.
MergeFrames ==
    { PcsSegment(4, 2, 2, 64, 1, objs) \o EndSegment :
          objs \in UNION { [1 .. n -> LayerEntries] : n \in 0 .. 1 } }

\* process_mkv_frame on the first, then on the second frame.
ProcessLayerFrame ==
    /\ nframes < 2
    /\ Deliver(IF nframes = 0 THEN EpochFrames ELSE MergeFrames)

SpecLayers == Init /\ [][ProcessLayerFrame]_vars

\* The canvas after composition object i of the running composition alone
\* has been drawn on a blank canvas (its object and window are cached).
Drawn(i) ==
    LET pcs == running_pcs[1]
        object == pcs.composition_objects[i]
    IN render_into_image(
           object_window(NewImage(pcs.width, pcs.height), object,
                         window_table[object.window_id]),
           pcs.palette_id, pcs.composition_number, palette_table[pcs.palette_id],
           object_table[object.object_id].rle_data).image.image

\* The composition objects that put a pixel of non-zero alpha at c.
Hits(c) ==
    { i \in 1 .. Len(running_pcs[1].composition_objects) : Drawn(i).px[c][2] # 0 }

Latest(s) == CHOOSE i \in s : \A j \in s : j <= i

\* C26: in a returned image every coordinate holds the pixel of the latest
\* composition object of the running composition's list that targets it with
\* non-zero alpha, and the transparent pixel of the fresh canvas where none
\* does; the list is the one an AcquisitionPoint merge has appended to.
C26_LaterObjectsLayerOver ==
    result.kind = "Image" =>
        \A c \in DOMAIN result.image.px :
            result.image.px[c] =
                IF Hits(c) = {} THEN <<0, 0>> ELSE Drawn(Latest(Hits(c))).px[c]

\* C26 witness: after an AcquisitionPoint merge the image holds, at a
\* coordinate that an earlier object and the appended object both target
\* with different pixels, the appended object's pixel.
C26_Witness ==
    /\ nframes = 2
    /\ FrameRead
    /\ DisplaySet.pcs.composition_state = "AcquisitionPoint"
    /\ Len(DisplaySet.pcs.composition_objects) = 1
    /\ result.kind = "Image"
    /\ \E c \in DOMAIN result.image.px :
          LET last == Len(running_pcs[1].composition_objects) IN
          /\ last \in Hits(c)
          /\ \E i \in Hits(c) : i < last /\ Drawn(i).px[c] # Drawn(last).px[c]
          /\ result.image.px[c] = Drawn(last).px[c]

\* The entries of the running composition whose object or window is not cached.
Unresolved ==
    { i \in 1 .. Len(running_pcs[1].composition_objects) :
          \/ running_pcs[1].composition_objects[i].object_id \notin DOMAIN object_table
          \/ running_pcs[1].composition_objects[i].window_id \notin DOMAIN window_table }

Earliest(s) == CHOOSE i \in s : \A j \in s : i <= j

\* C28: the render step reports the first missing reference in a fixed
\* order: the palette (also when the running composition has no
\* composition objects), then, entry by entry in list order, the object and
\* after it the window; so the earliest unresolved entry is the one
\* reported, with MissingObject when it lacks both.
C28_FirstMissingReferenceIsReported ==
    (FrameRead /\ running_pcs # None) =>
        LET pcs == running_pcs[1] IN
        IF pcs.palette_id \notin DOMAIN palette_table
        THEN result = MissingPalette(pcs.palette_id, pcs.composition_number)
        ELSE Unresolved # {} =>
                LET object == pcs.composition_objects[Earliest(Unresolved)] IN
                result = IF object.object_id \notin DOMAIN object_table
                         THEN MissingObject(object.object_id, pcs.composition_number)
                         ELSE MissingWindow(object.window_id, pcs.composition_number)

\* C28 witness: MissingObject has been returned for an entry that lacks its
\* object and its window, with a later entry that lacks only its window.
C28_Witness ==
    /\ FrameRead
    /\ running_pcs # None
    /\ running_pcs[1].palette_id \in DOMAIN palette_table
    /\ Unresolved # {}
    /\ LET pcs == running_pcs[1]
           first == pcs.composition_objects[Earliest(Unresolved)]
       IN /\ first.object_id \notin DOMAIN object_table
          /\ first.window_id \notin DOMAIN window_table
          /\ \E j \in Unresolved :
                /\ j > Earliest(Unresolved)
                /\ pcs.composition_objects[j].object_id \in DOMAIN object_table
          /\ result = MissingObject(first.object_id, pcs.composition_number)

\* C29: whatever an uncropped composition object draws lies inside the
\* rectangle of the window it references: a coordinate (x, y) it writes has
\* horizontal_pos <= x < horizontal_pos + width and
\* vertical_pos <= y < vertical_pos + height, whatever its placement offset.
C29_ObjectStaysInsideWindow ==
    result.kind = "Image" =>
        \A i \in 1 .. Len(running_pcs[1].composition_objects) :
            LET object == running_pcs[1].composition_objects[i]
                w == window_table[object.window_id]
            IN ~object.object_cropped_flag =>
                  \A c \in DOMAIN Drawn(i).px :
                      Drawn(i).px[c] # <<0, 0>> =>
                          /\ w.horizontal_pos <= c[1] /\ c[1] < w.horizontal_pos + w.width
                          /\ w.vertical_pos <= c[2] /\ c[2] < w.vertical_pos + w.height

\* ------------------------------------------------------------------ the loops, iteration by iteration (C27)

\* The locals of read_display_set at its entry.
SegmentLoopEntry ==
    [pos |-> 1, pcs |-> None, wds |-> << >>, pds |-> << >>, ods |-> << >>,
     current_ods |-> None]

\* Directives per bitmap in SpecLoops.
MaxLoopDirectives == 2

LoopBitmaps ==
    { Flatten(ds) : ds \in UNION { [1 .. n -> Directives] : n \in 0 .. MaxLoopDirectives } }
    \cup LongestRuns

\* Either loop at its entry: read_display_set on a payload of Frames, or
\* render_into_image on a bitmap of LoopBitmaps through a window over a
\* blank 3x2 canvas.
InitLoops ==
    /\ running_pcs = NewParser.running_pcs
    /\ window_table = NewParser.window_table
    /\ palette_table = NewParser.palette_table
    /\ object_table = NewParser.object_table
    /\ result = [kind |-> "NoCall"]
    /\ pre_epoch = [palettes |-> {}, windows |-> {}, objects |-> {}]
    /\ nframes = 0
    /\ \/ /\ frame \in Frames
          /\ input = SegmentLoopEntry
          /\ image_window = None
       \/ /\ frame \in LoopBitmaps
          /\ input = [pos |-> 1]
          /\ image_window = with_window(NewImage(3, 2), 0, 0, 3, 2)

\* One iteration of read_display_set's loop, until it returns.
ReadSegment ==
    /\ result.kind \in {"NoCall", "Continue"}
    /\ "pcs" \in DOMAIN input
    /\ LET r == read_segment(frame, input.pos, input.pcs, input.wds, input.pds, input.ods,
                             input.current_ods)
       IN /\ input' = [pos |-> r.pos, pcs |-> r.pcs, wds |-> r.wds, pds |-> r.pds,
                       ods |-> r.ods, current_ods |-> r.current_ods]
          /\ result' = r.res
    /\ UNCHANGED <<running_pcs, window_table, palette_table, object_table, frame, pre_epoch,
                   nframes, image_window>>

\* One iteration of render_into_image's loop, until it returns.
RenderStep ==
    /\ "pcs" \notin DOMAIN input
    /\ RenderDirective

NextLoops == ReadSegment \/ RenderStep

\* A running loop takes its next iteration.
SpecLoops == InitLoops /\ [][NextLoops]_vars /\ WF_vars(NextLoops)

\* The loop has returned.
Returned == result.kind \notin {"NoCall", "Continue"}

\* The header of the segment at the cursor of read_display_set's loop.
SegmentAt ==
    [type |-> frame[input.pos], size |-> U16At(frame, input.pos + 1)]

\* C27: both loops return.  An iteration of read_display_set's loop that
\* goes on has consumed the 3 header bytes and the segment, and the bytes a
\* segment decoder's loop turned into entries, composition objects or
\* windows (5, at least 8 and 9 each) were bytes of that segment; the loop
\* returns a Display Set only at an End segment.  An iteration of the
\* renderer's loop that goes on has consumed at least one byte and pushed at
\* most 16383 pixels.
C27_LoopsTerminate ==
    /\ <>Returned
    /\ [][/\ ("pcs" \in DOMAIN input /\ result'.kind = "Continue") =>
               /\ input'.pos = input.pos + 3 + SegmentAt.size
               /\ input'.pos <= Len(frame) + 1
               /\ SegmentAt.type = PGS_SEGMENT_TYPE_PDS =>
                     5 * Len(input'.pds[Len(input'.pds)].entries) <= SegmentAt.size - 2
               /\ SegmentAt.type = PGS_SEGMENT_TYPE_PCS =>
                     8 * Len(input'.pcs[1].composition_objects) <= SegmentAt.size - 11
               /\ SegmentAt.type = PGS_SEGMENT_TYPE_WDS =>
                     9 * (Len(input'.wds) - Len(input.wds)) <= SegmentAt.size - 1
          /\ ("pcs" \in DOMAIN input /\ result'.kind = "Ok") =>
               SegmentAt.type = PGS_SEGMENT_TYPE_END
          /\ ("pcs" \notin DOMAIN input /\ result'.kind = "Continue") =>
               /\ input'.pos >= input.pos + 1
               /\ input'.pos <= Len(frame) + 1
               /\ image_window'.x_cursor <= 16383 + image_window.x_cursor
       ]_vars

\* C27 witness: read_display_set's loop has returned a Display Set after
\* four iterations that consumed a Palette, a Window, an Object and a
\* Composition segment.
C27_Witness ==
    /\ "pcs" \in DOMAIN input
    /\ result.kind = "Ok"
    /\ Len(Headers) = 5
    /\ input.pos = Headers[5].at
    /\ Len(input.pds) = 1 /\ Len(input.wds) = 1 /\ Len(input.ods) = 1

\* ------------------------------------------------------------------ VobSub control sequences (C30)

\* data[i] of a Rust slice (0-based).
ByteAt(data, i) == data[i + 1]

\* u16::from_be_bytes([data[i], data[i + 1]])
U16From(data, i) == ByteAt(data, i) * 256 + ByteAt(data, i + 1)

\* ControlData::default()
DefaultControl ==
    [force |-> FALSE, start_time |-> None, stop_time |-> None, color_palette |-> None,
     alpha_palette |-> None, coordinates |-> None, rle_offsets |-> None]

\* The four nibbles NibbleStream::take_nibble yields from the two bytes at
\* data[i .. i + 2], high nibble first.
take_nibbles(data, i) ==
    <<ByteAt(data, i) \div 16, ByteAt(data, i) % 16,
      ByteAt(data, i + 1) \div 16, ByteAt(data, i + 1) % 16>>

\* One step of parse_control from its locals l (pc: "sequence" at the top of
\* the outer loop, "command" at the top of the inner loop, "match" at the
\* match on the command byte): [res |-> Continue, Some(control), None or a
\* panic, l |-> the locals as left behind].
parse_control_step(data, l) ==
    LET Return(r) == [res |-> r, l |-> l]
        Go(m) == [res |-> [kind |-> "Continue"], l |-> m]
        cursor == l.cursor
    IN
    IF l.pc = "sequence"
    THEN IF Len(data) <= cursor + 4 THEN Return([kind |-> "None"])
         ELSE Go([l EXCEPT !.pc = "command",
                           !.this_sequence = cursor,
                           !.offset_time = U16From(data, cursor),
                           !.next_control = U16From(data, cursor + 2),
                           !.cursor = cursor + 4])
    ELSE IF l.pc = "command"
    THEN IF Len(data) <= cursor THEN Return([kind |-> "None"])
         ELSE Go([l EXCEPT !.pc = "match", !.command = ByteAt(data, cursor)])
    ELSE IF l.command = 0
    THEN Go([l EXCEPT !.pc = "command", !.control.force = TRUE, !.cursor = cursor + 1])
    ELSE IF l.command = 1
    THEN Go([l EXCEPT !.pc = "command", !.control.start_time = Some(l.offset_time),
                      !.cursor = cursor + 1])
    ELSE IF l.command = 2
    THEN Go([l EXCEPT !.pc = "command", !.control.stop_time = Some(l.offset_time),
                      !.cursor = cursor + 1])
    ELSE IF l.command \in {3, 4}
    THEN IF cursor + 3 > Len(data) THEN Return(Panic("range end index out of range for slice"))
         ELSE IF l.command = 3
         THEN Go([l EXCEPT !.pc = "command",
                           !.control.color_palette = Some(take_nibbles(data, cursor + 1)),
                           !.cursor = cursor + 3])
         ELSE Go([l EXCEPT !.pc = "command",
                           !.control.alpha_palette = Some(take_nibbles(data, cursor + 1)),
                           !.cursor = cursor + 3])
    ELSE IF l.command = 5
    THEN IF Len(data) <= cursor + 6 THEN Return([kind |-> "None"])
         ELSE Go([l EXCEPT !.pc = "command",
                           !.control.coordinates =
                               Some([x1 |-> (U16From(data, cursor + 1) \div 16) % 4096,
                                     x2 |-> U16From(data, cursor + 2) % 4096,
                                     y1 |-> (U16From(data, cursor + 4) \div 16) % 4096,
                                     y2 |-> U16From(data, cursor + 5) % 4096]),
                           !.cursor = cursor + 7])
    ELSE IF l.command = 6
    THEN IF Len(data) <= cursor + 4 THEN Return([kind |-> "None"])
         ELSE Go([l EXCEPT !.pc = "command",
                           !.control.rle_offsets =
                               Some(<<U16From(data, cursor + 1), U16From(data, cursor + 3)>>),
                           !.cursor = cursor + 5])
    ELSE IF l.command = 255
    THEN IF l.next_control = l.this_sequence
         THEN Return([kind |-> "Some", val |-> l.control])
         ELSE Go([l EXCEPT !.pc = "sequence", !.cursor = l.next_control])
    ELSE Go([l EXCEPT !.pc = "command"])

\* Commands per control sequence in SpecControl.
MaxCommands == 2

\* Command bytes with their arguments: force, start, palette, coordinates,
\* RLE offsets, and the command byte 0x07, which is none of 0x00..0x06, 0xFF.
Commands ==
    { <<0>>, <<1>>, <<3, 18, 52>>, <<5, 0, 16, 2, 0, 16, 2>>, <<6, 0, 4, 0, 4>>, <<7>> }

\* A control sequence: offset time, offset of the next sequence, commands.
ControlSequence(offset_time, next_control, commands) ==
    (U16BE(offset_time) \o U16BE(next_control)) \o commands

\* A frame: the 4-byte header (size, control offset), a first control
\* sequence at offset 4 with up to MaxCommands commands, closed by 0xFF or
\* not, and a second sequence after it holding a stop command; each
\* sequence names itself or the other as the next one.  Also frames shorter
\* than the header.
VobFrames ==
    { << >>, <<0, 0, 0>> } \cup
    { LET first == Flatten(cmds) \o end
          second == 8 + Len(first)
      IN (<<0, 0>> \o U16BE(IF start = "first" THEN 4 ELSE IF start = "second" THEN second
                                                       ELSE second + 6))
         \o ControlSequence(0, IF next1 = "first" THEN 4 ELSE second, first)
         \o ControlSequence(1, IF next2 = "first" THEN 4 ELSE second, <<2, 255>>) :
          cmds \in UNION { [1 .. n -> Commands] : n \in 0 .. MaxCommands },
          end \in { <<255>>, << >> },
          start \in {"first", "second", "end"},
          next1 \in {"first", "second"},
          next2 \in {"first", "second"} }

\* parse_frame is about to be called on a frame.
InitControl ==
    /\ running_pcs = NewParser.running_pcs
    /\ window_table = NewParser.window_table
    /\ palette_table = NewParser.palette_table
    /\ object_table = NewParser.object_table
    /\ frame \in VobFrames
    /\ result = [kind |-> "NoCall"]
    /\ pre_epoch = [palettes |-> {}, windows |-> {}, objects |-> {}]
    /\ nframes = 0
    /\ input = None
    /\ image_window = None

\* parse_frame up to its call of parse_control: the header check and the
\* control offset.
ParseFrame ==
    /\ result.kind = "NoCall"
    /\ IF Len(frame) < 4
       THEN /\ result' = [kind |-> "InvalidFrameHeader"]
            /\ input' = input
       ELSE /\ result' = [kind |-> "Continue"]
            /\ input' = [pc |-> "sequence", cursor |-> U16From(frame, 2), this_sequence |-> 0,
                         offset_time |-> 0, next_control |-> 0, command |-> 0,
                         control |-> DefaultControl]
    /\ UNCHANGED <<running_pcs, window_table, palette_table, object_table, frame, pre_epoch,
                   nframes, image_window>>

\* The next step of parse_control, until it returns.
ParseControlStep ==
    /\ result.kind = "Continue"
    /\ LET r == parse_control_step(frame, input)
       IN /\ result' = r.res
          /\ input' = r.l
    /\ UNCHANGED <<running_pcs, window_table, palette_table, object_table, frame, pre_epoch,
                   nframes, image_window>>

NextControl == ParseFrame \/ ParseControlStep

\* Running code takes its next step.
SpecControl == InitControl /\ [][NextControl]_vars /\ WF_vars(NextControl)

\* C30: parse_control returns, with Some(control) or None, on every frame:
\* whatever the command bytes and the next-sequence offsets, the call comes
\* to an end.
C30_ParseControlTerminates ==
    <>(result.kind \in {"InvalidFrameHeader", "Some", "None"})

====
